---- MODULE Spec2Model ----
(***************************************************************************)
(* A model of the sod interpreter's evaluator (src/src/ast/evaluator.rs)   *)
(* over its scoped symbol table (src/src/symbol/table.rs, scope.rs) and    *)
(* its value model (src/src/symbol/symbol.rs).                             *)
(*                                                                         *)
(* The evaluator is a recursive tree walker.  The model runs it one AST    *)
(* node at a time: `calls` is the stack of the evaluator's own pending     *)
(* Rust activations (eval_if_statement, eval_for_statement,                *)
(* visit_function), each of which is in the middle of a block, and every   *)
(* action evaluates the next statement of the innermost block.  The        *)
(* statements themselves are drawn from small sets, so that the model      *)
(* covers every program built from them within the bounds.                 *)
(***************************************************************************)
EXTENDS Integers, Sequences, FiniteSets, TLC

VARIABLES symbol_table, calls, last, steps, lexer

vars == <<symbol_table, calls, last, steps, lexer>>

(***************************************************************************)
(* Bounds of the model.                                                    *)
(***************************************************************************)
\* the deepest nesting of blocks and calls that is being evaluated
MaxDepth == 2
\* the longest list or string a mutator may build
MaxLen == 2
\* the nodes one run evaluates
MaxSteps == 5

\* the names programs use
VarNames == {"x", "y"}
FuncNames == {"f"}
Names == VarNames \cup FuncNames \cup {"process"}

Max(S) == CHOOSE m \in S : \A k \in S : k <= m

(***************************************************************************)
(* Values: symbol.rs, enum Symbol.  A value is a record with a tag t and a *)
(* payload v whose shape depends on the tag.                               *)
(***************************************************************************)
Number(n) == [t |-> "Number", v |-> n]
Boolean(b) == [t |-> "Boolean", v |-> b]
StringSymbol(chars) == [t |-> "String", v |-> chars]
List(items) == [t |-> "List", v |-> items]
NoneSymbol == [t |-> "None", v |-> 0]
Function(args) == [t |-> "Function", v |-> args]
Object(argv) == [t |-> "Object", v |-> argv]

\* symbol.rs get_global_vars: process = { argv: [script arguments] }
get_global_vars(argv) == <<[name |-> "process", symbol |-> Object(List(argv))]>>

is_truthy(s) ==
    CASE s.t = "Number" -> s.v # 0
      [] s.t = "Boolean" -> s.v
      [] s.t = "String" -> Len(s.v) > 0
      [] s.t = "None" -> FALSE
      [] OTHER -> TRUE

kind(s) ==
    CASE s.t = "Number" -> "number"
      [] s.t = "Boolean" -> "boolean"
      [] s.t = "Function" -> "function"
      [] s.t = "String" -> "string"
      [] s.t = "List" -> "list"
      [] s.t = "None" -> "none"
      [] s.t = "Range" -> "range"
      [] OTHER -> "object"

(***************************************************************************)
(* Results: Result<Symbol, String> and Option<Symbol>.                     *)
(***************************************************************************)
Ok(s) == [ok |-> TRUE, val |-> s, err |-> ""]
Err(msg) == [ok |-> FALSE, val |-> NoneSymbol, err |-> msg]
Some(s) == [some |-> TRUE, val |-> s]
NoneOption == [some |-> FALSE, val |-> NoneSymbol]

\* format!("'{}' is not defined", name): one message per name of the model
NotDefined(name) ==
    CASE name = "x" -> "'x' is not defined"
      [] name = "y" -> "'y' is not defined"
      [] name = "f" -> "'f' is not defined"
      [] OTHER -> "'process' is not defined"

(***************************************************************************)
(* scope.rs: ScopeStack.                                                   *)
(***************************************************************************)
GLOBAL_SCOPE_ID == 0

Scope(id, k) == [id |-> id, kind |-> k]

ScopeStack_new ==
    [scope |-> << <<Scope(GLOBAL_SCOPE_ID, "Global")>> >>,
     counter |-> GLOBAL_SCOPE_ID + 1]

curr_stack(ss) == ss.scope[Len(ss.scope)]

curr(ss) == curr_stack(ss)[Len(curr_stack(ss))]

\* push_scope_stack without the Global sentinel
push_scope_stack_bare(ss, with) ==
    [ss EXCEPT !.scope = Append(@, <<Scope(ss.counter, with)>>)]

\* push_scope_stack without a new inner stack: the frame joins the caller's
push_scope_stack_shared(ss, with) ==
    [ss EXCEPT !.scope[Len(ss.scope)] = Append(@, Scope(ss.counter, with))]

push_scope_stack(ss, with) ==
    [ss EXCEPT !.scope =
        Append(@, <<Scope(GLOBAL_SCOPE_ID, "Global"), Scope(ss.counter, with)>>)]

ScopeStack_push_scope(ss, with) ==
    [ss EXCEPT !.scope[Len(ss.scope)] = Append(@, Scope(ss.counter, with))]

\* spec.md 4.5: push(ForBlock) appends a frame to the current inner stack
\* (scope.rs as given has no ForBlock arm, evaluator.rs:182 pushes one)
push_ForBlock(ss, with) == ScopeStack_push_scope(ss, with)

\* the stack after push(kind); the id push returns is ss.counter
ScopeStack_push(ss, k) ==
    LET pushed == CASE k = "ConditionalBlock" -> ScopeStack_push_scope(ss, k)
                    [] k = "FunctionBlock" -> push_scope_stack(ss, k)
                    [] k = "ForBlock" -> push_ForBlock(ss, k)
    IN  [pushed EXCEPT !.counter = @ + 1]

\* pop with a counter that only ever grows
ScopeStack_pop_monotone(ss) ==
    LET n == Len(ss.scope)
        inner == ss.scope[n]
        rest == SubSeq(inner, 1, Len(inner) - 1)
        after == [ss.scope EXCEPT ![n] = rest]
        scope2 == IF Len(after) > 1 /\ rest[Len(rest)].kind = "Global"
                  THEN SubSeq(after, 1, n - 1)
                  ELSE after
    IN  [ss |-> [scope |-> scope2, counter |-> ss.counter],
         popped |-> inner[Len(inner)]]

\* pop that leaves the Global sentinel of a function's inner stack behind
ScopeStack_pop_frame_only(ss) ==
    LET n == Len(ss.scope)
        inner == ss.scope[n]
    IN  [ss |-> [scope |-> [ss.scope EXCEPT ![n] = SubSeq(inner, 1, Len(inner) - 1)],
                 counter |-> ss.counter - 1],
         popped |-> inner[Len(inner)]]

\* the stack after pop(), and the scope pop returns
ScopeStack_pop(ss) ==
    LET n == Len(ss.scope)
        inner == ss.scope[n]
        popped_scope == inner[Len(inner)]
        rest == SubSeq(inner, 1, Len(inner) - 1)
        after == [ss.scope EXCEPT ![n] = rest]
        scope2 == IF Len(after) > 1 /\ rest[Len(rest)].kind = "Global"
                  THEN SubSeq(after, 1, n - 1)
                  ELSE after
    IN  [ss |-> [scope |-> scope2, counter |-> ss.counter - 1],
         popped |-> popped_scope]

(***************************************************************************)
(* table.rs: SymbolTable.                                                  *)
(***************************************************************************)
EmptyMap == [n \in {} |-> NoneSymbol]

MapPut(m, key, val) == [k \in DOMAIN m \cup {key} |-> IF k = key THEN val ELSE m[k]]

MapRemove(m, key) == [k \in DOMAIN m \ {key} |-> m[k]]

\* Option<(ScopeID, &Symbol)>: the innermost frame of the active inner stack
\* that binds the name
find(st, symbol_name) ==
    LET stack == curr_stack(st.scope)
        hits == {p \in 1..Len(stack) :
                    /\ stack[p].id \in DOMAIN st.scoped_table
                    /\ symbol_name \in DOMAIN st.scoped_table[stack[p].id]}
    IN  IF hits = {}
        THEN [found |-> FALSE, id |-> GLOBAL_SCOPE_ID]
        ELSE [found |-> TRUE, id |-> stack[Max(hits)].id]

get(st, symbol_name) ==
    LET f == find(st, symbol_name)
    IN  IF f.found THEN Some(st.scoped_table[f.id][symbol_name]) ELSE NoneOption

\* set that always binds in the topmost frame
set_topmost(st, name, symbol) ==
    [st EXCEPT !.scoped_table[curr(st.scope).id] = MapPut(@, name, symbol)]

\* set that binds a new name in the bottom frame
set_bottom(st, name, symbol) ==
    LET f == find(st, name)
        id == IF f.found THEN f.id ELSE curr_stack(st.scope)[1].id
    IN  [st EXCEPT !.scoped_table[id] = MapPut(@, name, symbol)]

set(st, name, symbol) ==
    LET f == find(st, name)
        id == IF f.found THEN f.id ELSE curr(st.scope).id
    IN  [st EXCEPT !.scoped_table[id] = MapPut(@, name, symbol)]

SymbolTable_push_scope(st, k) ==
    [scoped_table |-> MapPut(st.scoped_table, st.scope.counter, EmptyMap),
     scope |-> ScopeStack_push(st.scope, k)]

\* a pop_scope that leaves the popped frame's bindings in scoped_table
SymbolTable_pop_scope_keeping(st) ==
    [scoped_table |-> st.scoped_table, scope |-> ScopeStack_pop(st.scope).ss]

SymbolTable_pop_scope(st) ==
    LET p == ScopeStack_pop(st.scope)
    IN  [scoped_table |-> MapRemove(st.scoped_table, p.popped.id),
         scope |-> p.ss]

RECURSIVE SetAll(_, _)
SetAll(st, global_vars) ==
    IF global_vars = <<>> THEN st
    ELSE SetAll(set(st, global_vars[1].name, global_vars[1].symbol), Tail(global_vars))

SymbolTable_from(global_vars) ==
    SetAll([scoped_table |-> [id \in {GLOBAL_SCOPE_ID} |-> EmptyMap],
            scope |-> ScopeStack_new],
           global_vars)

(***************************************************************************)
(* symbol.rs: the methods of List and StringSymbol.  A method call yields  *)
(* the receiver after the call (recv), the Result of the call (res; a call *)
(* that yields no value yields None), and whether the host panicked.       *)
(***************************************************************************)
Outcome(recv, res) == [recv |-> recv, res |-> res, panic |-> FALSE]
Panic(recv) == [recv |-> recv, res |-> Err("panic"), panic |-> TRUE]

InsertAt(s, i, e) == SubSeq(s, 1, i) \o <<e>> \o SubSeq(s, i + 1, Len(s))
RemoveAt(s, i) == SubSeq(s, 1, i) \o SubSeq(s, i + 2, Len(s))

\* List::get / StringSymbol::get / List::get_mut: index is a usize
List_get(list, index) ==
    IF index < Len(list.v) THEN Ok(list.v[index + 1])
    ELSE Err("list index out of range")

StringSymbol_get(ss, index) ==
    IF index < Len(ss.v) THEN Ok(StringSymbol(<<ss.v[index + 1]>>))
    ELSE Err("string index out of range")

List_len(list) == Number(Len(list.v))

List_pop(list) ==
    IF Len(list.v) = 0 THEN Outcome(list, Ok(NoneSymbol))
    ELSE Outcome(List(SubSeq(list.v, 1, Len(list.v) - 1)), Ok(list.v[Len(list.v)]))

List_push(list, args) ==
    IF Len(args) # 1 THEN Outcome(list, Err("incorrect number of arguments to push"))
    ELSE LET pushed == List(Append(list.v, args[1]))
         IN  Outcome(pushed, Ok(List_len(pushed)))

\* Vec::remove panics when index >= len
List_remove(list, args) ==
    IF Len(args) # 1 THEN Outcome(list, Err("incorrect number of arguments to remove"))
    ELSE IF args[1].t # "Number"
    THEN Outcome(list, Err("list indexes must be of type number"))
    ELSE IF args[1].v > Len(list.v)
    THEN Outcome(list, Err("list remove index out of range"))
    ELSE IF args[1].v >= Len(list.v) THEN Panic(list)
    ELSE Outcome(List(RemoveAt(list.v, args[1].v)), Ok(list.v[args[1].v + 1]))

List_insert(list, args) ==
    IF Len(args) # 2 THEN Outcome(list, Err("expected 2 arguments to insert"))
    ELSE IF args[1].t # "Number"
    THEN Outcome(list, Err("list indexes must be of type number"))
    ELSE IF args[1].v > Len(list.v)
    THEN Outcome(list, Err("list insert index out of range"))
    ELSE Outcome(List(InsertAt(list.v, args[1].v, args[2])), Ok(NoneSymbol))

List_contains(list, args) ==
    IF Len(args) # 1 THEN Outcome(list, Err("expected 1 arguments to contains"))
    ELSE Outcome(list, Ok(Boolean(\E i \in 1..Len(list.v) : list.v[i] = args[1])))

List_call(list, fname, args) ==
    CASE fname = "len" -> Outcome(list, Ok(List_len(list)))
      [] fname = "pop" -> List_pop(list)
      [] fname = "push" -> List_push(list, args)
      [] fname = "remove" -> List_remove(list, args)
      [] fname = "contains" -> List_contains(list, args)
      [] fname = "insert" -> List_insert(list, args)
      [] OTHER -> Outcome(list, Err("list has no member"))

StringSymbol_len(ss) == Number(Len(ss.v))

StringSymbol_pop(ss) ==
    IF Len(ss.v) = 0 THEN Outcome(ss, Ok(NoneSymbol))
    ELSE Outcome(StringSymbol(SubSeq(ss.v, 1, Len(ss.v) - 1)),
                 Ok(StringSymbol(<<ss.v[Len(ss.v)]>>)))

StringSymbol_push(ss, args) ==
    IF Len(args) # 1 THEN Outcome(ss, Err("incorrect number of arguments to push"))
    ELSE IF args[1].t # "String" THEN Outcome(ss, Err("can only add a string to a string"))
    ELSE LET pushed == StringSymbol(ss.v \o args[1].v)
         IN  Outcome(pushed, Ok(StringSymbol_len(pushed)))

\* String::remove panics when index >= len
StringSymbol_remove(ss, args) ==
    IF Len(args) # 1 THEN Outcome(ss, Err("incorrect number of arguments to remove"))
    ELSE IF args[1].t # "Number"
    THEN Outcome(ss, Err("string indexes must be of type number"))
    ELSE IF args[1].v > Len(ss.v)
    THEN Outcome(ss, Err("string remove index out of range"))
    ELSE IF args[1].v >= Len(ss.v) THEN Panic(ss)
    ELSE Outcome(StringSymbol(RemoveAt(ss.v, args[1].v)),
                 Ok(StringSymbol(<<ss.v[args[1].v + 1]>>)))

StringSymbol_insert(ss, args) ==
    IF Len(args) # 2 THEN Outcome(ss, Err("expected 2 arguments to insert"))
    ELSE IF args[1].t # "Number"
    THEN Outcome(ss, Err("string indexes must be of type number"))
    ELSE IF args[1].v > Len(ss.v)
    THEN Outcome(ss, Err("string insert index out of range"))
    ELSE IF args[2].t # "String"
    THEN Outcome(ss, Err("can only insert string into a string"))
    ELSE Outcome(StringSymbol(SubSeq(ss.v, 1, args[1].v) \o args[2].v
                                \o SubSeq(ss.v, args[1].v + 1, Len(ss.v))),
                 Ok(NoneSymbol))

StringSymbol_call(ss, fname, args) ==
    CASE fname = "insert" -> StringSymbol_insert(ss, args)
      [] fname = "remove" -> StringSymbol_remove(ss, args)
      [] fname = "pop" -> StringSymbol_pop(ss)
      [] fname = "len" -> Outcome(ss, Ok(StringSymbol_len(ss)))
      [] fname = "push" -> StringSymbol_push(ss, args)
      [] OTHER -> Outcome(ss, Err("string has no member"))

\* Symbol::call
Symbol_call(self, call, args) ==
    CASE self.t = "List" -> List_call(self, call, args)
      [] self.t = "String" -> StringSymbol_call(self, call, args)
      [] OTHER -> Outcome(self, Err("has no member"))

\* get_index_mut that hands out the last element whatever the index
Symbol_get_index_mut_last(self, index, rhs) ==
    CASE self.t = "List" ->
            IF index < Len(self.v)
            THEN [recv |-> List([self.v EXCEPT ![Len(self.v)] = rhs]),
                  res |-> Ok(NoneSymbol), panic |-> FALSE]
            ELSE [recv |-> self, res |-> Err("list index out of range"), panic |-> FALSE]
      [] self.t = "String" -> [recv |-> self, res |-> Err("panic"), panic |-> TRUE]
      [] OTHER -> [recv |-> self, res |-> Err("object is not indexable"), panic |-> FALSE]

\* Symbol::get_index_mut followed by the write `*lhs_symbol = rhs`:
\* the receiver after the write
Symbol_get_index_mut(self, index, rhs) ==
    CASE self.t = "List" ->
            IF index < Len(self.v)
            THEN Outcome(List([self.v EXCEPT ![index + 1] = rhs]), Ok(NoneSymbol))
            ELSE Outcome(self, Err("list index out of range"))
      [] self.t = "String" -> Panic(self)
      [] OTHER -> Outcome(self, Err("object is not indexable"))


(***************************************************************************)
(* The AST nodes programs are built from (ast.rs).  Expressions are a      *)
(* literal, an identifier, or an index expression on an identifier.        *)
(***************************************************************************)
Lit(sym) == [e |-> "Literal", name |-> "", index |-> 0, val |-> sym]
Identifier(name) == [e |-> "Identifier", name |-> name, index |-> 0, val |-> NoneSymbol]
IndexExpression(name, index) ==
    [e |-> "IndexExpression", name |-> name, index |-> index, val |-> NoneSymbol]

Literals == {Number(1), List(<<Number(1), Number(2)>>), StringSymbol(<<"a", "b">>)}
\* the first two indexes, and one outside every collection
Indexes == {0, 1, MaxLen}
\* the right-hand sides of assignments; the expression statements; the
\* right-hand sides of index assignments; the collections of for statements;
\* the operands of return statements
Exprs ==
    {Lit(s) : s \in Literals} \cup {Identifier(n) : n \in VarNames}
        \cup {IndexExpression("x", 0)}
ReadExprs == {Identifier(n) : n \in VarNames} \cup {IndexExpression("x", 0)}
ElementExprs == {Lit(Number(1)), Identifier("y")}
IterableExprs == {Lit(List(<<Number(1), Number(2)>>)), Identifier("x")}
ReturnExprs == {Lit(Number(1)), Identifier("x")}
\* the variable index assignments and method calls are made on, the loop
\* variable, and the names called
Collection == "x"
LoopVariable == "y"
Callees == FuncNames \cup {"x"}
\* the conditions of if statements
Conditions == {Boolean(TRUE), Number(0)}
\* the parameter lists of function statements, and the argument lists of calls
ParamLists == {<<"y">>}
ArgLists == {<<>>, <<Lit(Number(1))>>, <<Identifier("x")>>}
Methods == {"push", "pop", "insert", "remove"}

(***************************************************************************)
(* evaluator.rs: expressions (the arms of eval_node that change nothing).  *)
(***************************************************************************)
\* get_symbol followed by clone
get_symbol(st, name) ==
    LET o == get(st, name)
    IN  IF o.some THEN Ok(o.val) ELSE Err(NotDefined(name))

visit_index_expression(st, name, index) ==
    LET symbol == get_symbol(st, name)
    IN  IF ~symbol.ok THEN symbol
        ELSE CASE symbol.val.t = "List" -> List_get(symbol.val, index)
               [] symbol.val.t = "String" -> StringSymbol_get(symbol.val, index)
               [] OTHER -> Err("is not indexable")

eval_node(st, node) ==
    CASE node.e = "Literal" -> Ok(node.val)
      [] node.e = "Identifier" -> get_symbol(st, node.name)
      [] node.e = "IndexExpression" -> visit_index_expression(st, node.name, node.index)

RECURSIVE visit_function_args(_, _)
\* the values of the arguments, or the first error
visit_function_args(st, args) ==
    IF args = <<>> THEN [ok |-> TRUE, vals |-> <<>>, err |-> ""]
    ELSE LET first == eval_node(st, args[1])
             rest == visit_function_args(st, Tail(args))
         IN  IF ~first.ok THEN [ok |-> FALSE, vals |-> <<>>, err |-> first.err]
             ELSE IF ~rest.ok THEN rest
             ELSE [ok |-> TRUE, vals |-> <<first.val>> \o rest.vals, err |-> ""]

(***************************************************************************)
(* f64 arithmetic.  A Number whose value is not an integer carries its     *)
(* reduced denominator d > 1 beside the numerator v, so that equal values  *)
(* are equal records.  The model's numbers are the finite ones: a division *)
(* by zero or a fractional power has no value here (Finite is FALSE) and   *)
(* the specifications draw no input that asks for one.                     *)
(***************************************************************************)
Abs(n) == IF n < 0 THEN -n ELSE n

RECURSIVE GCD(_, _)
GCD(a, b) == IF b = 0 THEN a ELSE GCD(b, a % b)

Den(s) == IF "d" \in DOMAIN s THEN s.d ELSE 1

\* the f64 num/den, den # 0
Float(num, den) ==
    LET g == GCD(Abs(num), Abs(den))
        n == (IF den < 0 THEN -num ELSE num) \div g
        d == Abs(den) \div g
    IN  IF d = 1 THEN Number(n) ELSE [t |-> "Number", v |-> n, d |-> d]

RECURSIVE Pow(_, _)
Pow(b, e) == IF e = 0 THEN 1 ELSE b * Pow(b, e - 1)

\* f64::powf for an integral exponent
powf(ln, rn) ==
    IF rn.v >= 0 THEN Float(Pow(ln.v, rn.v), Pow(Den(ln), rn.v))
    ELSE Float(Pow(Den(ln), -rn.v), Pow(ln.v, -rn.v))

\* lv < rv on f64
FloatLess(lv, rv) == lv.v * Den(rv) < rv.v * Den(lv)

(***************************************************************************)
(* lexer/token.rs and lexer/lexer.rs.  The source is a sequence of bytes,  *)
(* each a string of one character; the cursor counts the bytes consumed.   *)
(***************************************************************************)
\* a token is a record with its TokenType variant as type and that variant's
\* payload, if it has one, as a field of its own
Simple(type) == [type |-> type]
IntegerToken(int) == [type |-> "Integer", int |-> int]
DecimalToken(dec) == [type |-> "Decimal", dec |-> dec]
StringToken(value, quote) == [type |-> "String", value |-> value, quote |-> quote]
IdentifierToken(ident) == [type |-> "Identifier", ident |-> ident]
EscapedIdentifierToken(ident) == [type |-> "EscapedIdentifier", ident |-> ident]
CatchAllToken(byte) == [type |-> "CatchAll", byte |-> byte]
EOF == Simple("EOF")

\* TokenType::is_end_line
is_end_line(token) == token.type \in {"EOF", "Newline"}

AsciiDigit == {"0", "1", "2", "3", "4", "5", "6", "7", "8", "9"}
\* u8::is_ascii_alphabetic, on the letters the model's sources are written in
AsciiAlphabetic ==
    {"a", "b", "c", "d", "e", "f", "g", "h", "i", "j", "k", "l", "m", "n", "o",
     "p", "q", "r", "s", "t", "u", "v", "w", "x", "y", "z"}
AsciiAlphanumeric == AsciiAlphabetic \cup AsciiDigit
Bytes ==
    AsciiAlphanumeric \cup
    {"-", ",", ";", ".", "(", ")", "{", "}", "*", "/", "\n", "^", "+", "[", "]",
     "\\", "|", "&", "=", "!", ">", "<", "#", "\"", "'", "$", " ", "\t", "\r", "_", "?"}

is_whitespace(byte) == byte \in {" ", "\t", "\r"}

DigitValue(byte) ==
    CASE byte = "0" -> 0 [] byte = "1" -> 1 [] byte = "2" -> 2 [] byte = "3" -> 3
      [] byte = "4" -> 4 [] byte = "5" -> 5 [] byte = "6" -> 6 [] byte = "7" -> 7
      [] byte = "8" -> 8 [] byte = "9" -> 9

RECURSIVE bytes_to_string(_)
\* common/utils.rs bytes_to_string: the String of the bytes
bytes_to_string(bytes) ==
    IF bytes = <<>> THEN "" ELSE bytes[1] \o bytes_to_string(Tail(bytes))

RECURSIVE parse_digits(_)
\* str::parse of a run of digits
parse_digits(bytes) ==
    IF bytes = <<>> THEN 0
    ELSE 10 * parse_digits(SubSeq(bytes, 1, Len(bytes) - 1)) + DigitValue(bytes[Len(bytes)])

Lexer_new(src) == [src |-> src, cursor |-> 0]

peak_byte(lx, distance) ==
    IF lx.cursor + distance < Len(lx.src)
    THEN [some |-> TRUE, byte |-> lx.src[lx.cursor + distance + 1]]
    ELSE [some |-> FALSE, byte |-> ""]

RECURSIVE read_while(_, _, _)
\* the bytes from cursor + offset on that pred accepts, up to the first it rejects
read_while(lx, pred, offset) ==
    LET b == peak_byte(lx, offset)
    IN  IF b.some /\ b.byte \in pred
        THEN <<b.byte>> \o read_while(lx, pred, offset + 1)
        ELSE <<>>

Read(token, bytes_read) == [token |-> token, bytes_read |-> bytes_read, panic |-> FALSE]
ReadPanic == [token |-> EOF, bytes_read |-> 0, panic |-> TRUE]

\* the digits of read_digit's closure: digits, and the first dot only
read_digit_bytes(lx) ==
    LET Fraction(whole) ==
            IF peak_byte(lx, Len(whole)).some /\ peak_byte(lx, Len(whole)).byte = "."
            THEN whole \o <<".">> \o read_while(lx, AsciiDigit, Len(whole) + 1)
            ELSE whole
    IN  Fraction(read_while(lx, AsciiDigit, 0))

read_digit(lx) ==
    LET Parse(seen_dot, bytes, whole, fraction) ==
            IF seen_dot
            THEN Read(DecimalToken(Float(parse_digits(whole \o fraction),
                                         Pow(10, Len(fraction)))),
                      Len(bytes))
            ELSE Read(IntegerToken(parse_digits(bytes)), Len(bytes))
        Split(seen_dot, bytes, dot) ==
            Parse(seen_dot, bytes, SubSeq(bytes, 1, dot - 1), SubSeq(bytes, dot + 1, Len(bytes)))
        DotOf(seen_dot, bytes) ==
            Split(seen_dot, bytes,
                  IF \E i \in 1..Len(bytes) : bytes[i] = "."
                  THEN CHOOSE i \in 1..Len(bytes) : bytes[i] = "."
                  ELSE Len(bytes) + 1)
        \* trim trailing dots
        Trim(read) ==
            DotOf(\E i \in 1..Len(read) : read[i] = ".",
                  IF read[Len(read)] = "." THEN SubSeq(read, 1, Len(read) - 1) ELSE read)
    IN  Trim(read_digit_bytes(lx))

read_identifier(lx) ==
    LET Token(bytes) == Read(IdentifierToken(bytes_to_string(bytes)), Len(bytes))
    IN  Token(read_while(lx, AsciiAlphanumeric \cup {"_"}, 0))

NextIs(lx, byte) == peak_byte(lx, 1).some /\ peak_byte(lx, 1).byte = byte

read_catch_all(byte) == Read(CatchAllToken(byte), 1)

read_equals(lx) == IF NextIs(lx, "=") THEN Read(Simple("DoubleEquals"), 2) ELSE Read(Simple("Equals"), 1)
read_not_equals(lx) == IF NextIs(lx, "=") THEN Read(Simple("NotEquals"), 2) ELSE Read(Simple("NotEquals"), 1)
read_left_arrow(lx) == IF NextIs(lx, "=") THEN Read(Simple("Le"), 2) ELSE Read(Simple("LessThan"), 1)
read_right_arrow(lx) == IF NextIs(lx, "=") THEN Read(Simple("Ge"), 2) ELSE Read(Simple("GreaterThan"), 1)
read_and(lx) == IF NextIs(lx, "&") THEN Read(Simple("And"), 2) ELSE read_catch_all("&")
read_pipe(lx) == IF NextIs(lx, "|") THEN Read(Simple("Or"), 2) ELSE read_catch_all("|")

read_string(lx, term) ==
    LET Token(s_bytes) == Read(StringToken(s_bytes, term), Len(s_bytes) + 2)
    IN  Token(read_while(lx, Bytes \ {term}, 1))

\* a `$` that no alphanumeric byte follows: panic!("expected a variable")
read_escaped_identifier(lx) ==
    LET Token(bytes) ==
            IF Len(bytes) = 0 THEN ReadPanic
            ELSE Read(EscapedIdentifierToken(bytes_to_string(bytes)), Len(bytes) + 1)
    IN  Token(read_while(lx, AsciiAlphanumeric, 1))

read_line_comment(lx) == Read(Simple("LineComment"), Len(read_while(lx, Bytes \ {"\n"}, 0)))
read_whitespace(lx) == Read(Simple("Whitespace"), Len(read_while(lx, {" ", "\t", "\r"}, 0)))

SingleByteTokens ==
    [b \in {"-", ",", ";", ".", "(", ")", "{", "}", "*", "/", "\n", "^", "+", "[", "]", "\\"} |->
        CASE b = "-" -> "Minus" [] b = "," -> "Comma" [] b = ";" -> "SemiColon"
          [] b = "." -> "Dot" [] b = "(" -> "OpenParen" [] b = ")" -> "CloseParen"
          [] b = "{" -> "OpenBraces" [] b = "}" -> "CloseBraces" [] b = "*" -> "Asterisk"
          [] b = "/" -> "ForwardSlash" [] b = "\n" -> "Newline" [] b = "^" -> "Carat"
          [] b = "+" -> "Plus" [] b = "[" -> "OpenSqBracket" [] b = "]" -> "CloseSqBracket"
          [] b = "\\" -> "BackSlash"]

\* the token at the cursor and its length in bytes
peak(lx) ==
    LET b == peak_byte(lx, 0)
        byte == b.byte
    IN  IF ~b.some THEN Read(EOF, 0)
        ELSE CASE byte \in DOMAIN SingleByteTokens -> Read(Simple(SingleByteTokens[byte]), 1)
               [] byte = "|" -> read_pipe(lx)
               [] byte = "&" -> read_and(lx)
               [] byte = "=" -> read_equals(lx)
               [] byte = "!" -> read_not_equals(lx)
               [] byte = ">" -> read_right_arrow(lx)
               [] byte = "<" -> read_left_arrow(lx)
               [] byte = "#" -> read_line_comment(lx)
               [] byte \in {"\"", "'"} -> read_string(lx, byte)
               [] byte = "$" -> read_escaped_identifier(lx)
               [] is_whitespace(byte) -> read_whitespace(lx)
               [] byte \in AsciiDigit -> read_digit(lx)
               [] byte \in AsciiAlphabetic -> read_identifier(lx)
               [] OTHER -> read_catch_all(byte)

Lexed(lx, token, panic) == [lexer |-> lx, token |-> token, panic |-> panic]

RECURSIVE Lexer_next(_)
\* Lexer::next: the next token that is no line comment; the cursor moves past it
Lexer_next(lx) ==
    LET Move(p, moved) ==
            IF p.panic THEN Lexed(lx, EOF, TRUE)
            ELSE IF p.token.type # "LineComment" THEN Lexed(moved, p.token, FALSE)
            ELSE Lexer_next(moved)
        Peaked(p) == Move(p, [lx EXCEPT !.cursor = @ + p.bytes_read])
    IN  Peaked(peak(lx))

RECURSIVE next_token(_)
next_token(lx) ==
    LET Skip(n) == IF n.panic \/ n.token.type # "Whitespace" THEN n ELSE next_token(n.lexer)
    IN  Skip(Lexer_next(lx))

next_cmd_token(lx) == Lexer_next(lx)

RECURSIVE lookahead_loop(_, _, _)
\* the loop of lookahead: i tokens are still to be read
lookahead_loop(lx, i, cursor_snapshot) ==
    LET Loop(n) ==
            IF n.panic THEN n
            ELSE IF n.token.type = "Whitespace"
            THEN lookahead_loop(n.lexer, i, cursor_snapshot)
            ELSE IF i - 1 <= 0 \/ n.token.type = "EOF"
                 THEN Lexed([n.lexer EXCEPT !.cursor = cursor_snapshot], n.token, FALSE)
                 ELSE lookahead_loop(n.lexer, i - 1, cursor_snapshot)
    IN  Loop(Lexer_next(lx))

RECURSIVE lookahead_advancing(_, _)
\* a lookahead that forgets to restore the cursor
lookahead_advancing(lx, distance) ==
    LET Loop(n) ==
            IF distance <= 1 \/ n.panic \/ n.token.type = "EOF" THEN n
            ELSE lookahead_advancing(n.lexer, distance - 1)
    IN  Loop(next_token(lx))

\* distance >= 1; distance = 0 underflows the u32 i
lookahead(lx, distance) == lookahead_loop(lx, distance, lx.cursor)

(***************************************************************************)
(* ast/ast.rs: the nodes of expressions.  Number, Boolean, String and None *)
(* nodes are Lit nodes of their value.                                     *)
(***************************************************************************)
BinaryExpression(left, operator, right) ==
    [e |-> "BinaryExpression", left |-> left, operator |-> operator, right |-> right]
UnaryExpression(node) == [e |-> "UnaryExpression", node |-> node]
VariableExpression(lhs, rhs) == [e |-> "VariableExpression", lhs |-> lhs, rhs |-> rhs]
\* increment is <<>> (None) or <<node>> (Some)
RangeExpression(start, end, increment) ==
    [e |-> "RangeExpression", start |-> start, end |-> end, increment |-> increment]
\* the nodes the parser builds on a base node
ReturnStatement(expression) == [e |-> "ReturnStatement", node |-> expression]
CallExpression(base, args) == [e |-> "CallExpression", base |-> base, args |-> args]
MemberExpression(base, property) ==
    [e |-> "MemberExpression", base |-> base, property |-> property]
IndexExpressionOn(base, index) == [e |-> "IndexExpression", base |-> base, index |-> index]
ListLiteral(items) == [e |-> "List", items |-> items]

(***************************************************************************)
(* parser.rs: the Pratt parser of expressions.  A Parser is its lexer and  *)
(* its current token; panic records that the lexer panicked under it.      *)
(* Every parsing function yields the parser after it with Ok(node) or      *)
(* Err(message).  The model parses lines of expressions, assignments,      *)
(* ranges, calls, members, lists and return; the statements (func, if,     *)
(* for) and commands are not parsed here, and no line holds one.           *)
(***************************************************************************)
Parser(lx, curr_token, panic) == [lexer |-> lx, curr_token |-> curr_token, panic |-> panic]

Parser_new(src) ==
    LET Of(n) == Parser(n.lexer, n.token, n.panic)
    IN  Of(next_token(Lexer_new(src)))

advance_token(p) ==
    LET Of(n) == Parser(n.lexer, n.token, n.panic)
    IN  IF p.panic THEN p ELSE Of(next_token(p.lexer))

Parsed(p, node) == [p |-> p, ok |-> TRUE, node |-> node, err |-> ""]
Failed(p, msg) == [p |-> p, ok |-> FALSE, node |-> Lit(NoneSymbol), err |-> msg]

Operators ==
    {"Plus", "Minus", "Asterisk", "ForwardSlash", "Carat", "GreaterThan", "LessThan",
     "Ge", "Le", "DoubleEquals", "NotEquals", "And", "Or"}

eat(p, expected_token) ==
    IF p.curr_token.type = "EOF" THEN Failed(p, "EOF")
    ELSE IF expected_token # p.curr_token THEN Failed(p, "unexpected token")
    ELSE Parsed(advance_token(p), Lit(NoneSymbol))

eat_operator(p) ==
    IF p.curr_token.type \in Operators THEN eat(p, p.curr_token)
    ELSE Failed(p, "unexpected token, expected an operator")

eat_identifier(p) ==
    LET Eaten(r) == IF r.ok THEN Parsed(r.p, Identifier(p.curr_token.ident)) ELSE r
    IN  IF p.curr_token.type \in {"Identifier", "EscapedIdentifier"}
        THEN Eaten(eat(p, p.curr_token))
        ELSE Failed(p, "unexpected token, expected an identifier")

\* a table in which * and / bind no tighter than + and -
get_precedence_flat(operator) ==
    CASE operator.type = "Carat" -> 5
      [] operator.type \in {"Asterisk", "ForwardSlash", "Plus", "Minus"} -> 2
      [] operator.type \in {"DoubleEquals", "NotEquals", "GreaterThan", "LessThan",
                            "Ge", "Le", "And", "Or"} -> 1
      [] OTHER -> 0

get_precedence(operator) ==
    CASE operator.type = "Carat" -> 5
      [] operator.type \in {"Asterisk", "ForwardSlash"} -> 3
      [] operator.type \in {"Plus", "Minus"} -> 2
      [] operator.type \in {"DoubleEquals", "NotEquals", "GreaterThan", "LessThan",
                            "Ge", "Le", "And", "Or"} -> 1
      [] OTHER -> 0

RECURSIVE expression(_, _)
RECURSIVE expression_loop(_, _, _)
RECURSIVE infix(_, _, _)
RECURSIVE prefix(_)
RECURSIVE unary_expression(_)
RECURSIVE parenthesized_expression(_)
RECURSIVE parse_identifier(_)
RECURSIVE variable_statement(_, _)
RECURSIVE eat_literal(_)
RECURSIVE range_expression(_, _)
RECURSIVE return_expression(_)
RECURSIVE call_expression(_, _)
RECURSIVE call_expression_args(_, _)
RECURSIVE member_expression(_, _)
RECURSIVE member_prefix_expression(_, _)
RECURSIVE list_literal(_)
RECURSIVE list_items(_, _)

\* range_expression = start ".." end (".." increment)?
range_expression(p, start) ==
    LET Rest(rest) ==
            IF ~rest.ok THEN rest
            ELSE IF rest.node.e = "RangeExpression"
                 THEN Parsed(rest.p, RangeExpression(start, rest.node.start, <<rest.node.end>>))
                 ELSE Parsed(rest.p, RangeExpression(start, rest.node, <<>>))
        SecondDot(d2) == IF ~d2.ok THEN d2 ELSE Rest(expression(d2.p, 0))
        FirstDot(d1) == IF ~d1.ok THEN d1 ELSE SecondDot(eat(d1.p, Simple("Dot")))
    IN  FirstDot(eat(p, Simple("Dot")))

eat_literal(p) ==
    LET type == p.curr_token.type
        Integer(ahead) ==
            IF ahead.panic
            THEN Failed(Parser(p.lexer, p.curr_token, TRUE), "panic")
            ELSE IF ahead.token.type = "Dot"
            THEN range_expression(advance_token(p), Lit(Number(p.curr_token.int)))
            ELSE Parsed(advance_token(p), Lit(Number(p.curr_token.int)))
    IN  CASE type = "Decimal" -> Parsed(advance_token(p), Lit(p.curr_token.dec))
          [] type = "Integer" -> Integer(lookahead(p.lexer, 1))
          [] type = "String" ->
                Parsed(advance_token(p), Lit(StringSymbol(p.curr_token.value)))
          [] OTHER -> Failed(p, "unexpected token")

\* variable_statement = expression "=" expression
variable_statement(p, lhs) ==
    LET Rhs(rhs) == IF ~rhs.ok THEN rhs ELSE Parsed(rhs.p, VariableExpression(lhs, rhs.node))
        Eq(eq) == IF ~eq.ok THEN eq ELSE Rhs(expression(eq.p, 0))
    IN  Eq(eat(p, Simple("Equals")))

\* return_expression = "return" expression
return_expression(p) ==
    LET Expression(r) == IF ~r.ok THEN r ELSE Parsed(r.p, ReturnStatement(r.node))
        Return(ret) == IF ~ret.ok THEN ret ELSE Expression(expression(ret.p, 0))
    IN  Return(eat(p, IdentifierToken("return")))

\* the loop of call_expression_args; the arguments are in the node field
call_expression_args(p, args) ==
    LET Comma(r, comma) ==
            IF ~comma.ok THEN comma
            ELSE call_expression_args(comma.p, Append(args, r.node))
        Arg(r) ==
            IF ~r.ok THEN r
            ELSE IF r.p.curr_token.type = "CloseParen"
            THEN Parsed(r.p, Append(args, r.node))
            ELSE Comma(r, eat(r.p, Simple("Comma")))
    IN  IF args = <<>> /\ p.curr_token.type = "CloseParen" THEN Parsed(p, <<>>)
        ELSE Arg(expression(p, 0))

\* call_expression = identifier "(" call_expression_args ")"
call_expression(p, base) ==
    LET Closed(args, close) ==
            IF ~close.ok THEN close
            ELSE IF close.p.curr_token.type = "Dot"
            THEN member_expression(close.p, CallExpression(base, args.node))
            ELSE Parsed(close.p, CallExpression(base, args.node))
        Args(args) == IF ~args.ok THEN args ELSE Closed(args, eat(args.p, Simple("CloseParen")))
        Opened(open) == IF ~open.ok THEN open ELSE Args(call_expression_args(open.p, <<>>))
    IN  Opened(eat(p, Simple("OpenParen")))

\* member_prefix_expression = member_expression | index_expression |
\* call_expression; more tells whether a prefix was parsed
member_prefix_expression(p, base) ==
    LET More(r) == [r |-> r, more |-> TRUE]
        Property(property) ==
            IF ~property.ok THEN property
            ELSE Parsed(property.p, MemberExpression(base, property.node.name))
        Dot(dot) == IF ~dot.ok THEN dot ELSE Property(eat_identifier(dot.p))
        Closed(index, close) ==
            IF ~close.ok THEN close ELSE Parsed(close.p, IndexExpressionOn(base, index.node))
        Index(index) ==
            IF ~index.ok THEN index
            ELSE Closed(index, eat(index.p, Simple("CloseSqBracket")))
        Opened(open) == IF ~open.ok THEN open ELSE Index(expression(open.p, 0))
    IN  CASE p.curr_token.type = "Dot" -> More(Dot(eat(p, Simple("Dot"))))
          [] p.curr_token.type = "OpenSqBracket" ->
                More(Opened(eat(p, Simple("OpenSqBracket"))))
          [] p.curr_token.type = "OpenParen" -> More(call_expression(p, base))
          [] OTHER -> [r |-> Parsed(p, base), more |-> FALSE]

\* member_expression = identifier member_prefix_expression
member_expression(p, base) ==
    LET Prefix(m) ==
            IF ~m.r.ok THEN m.r
            ELSE IF m.more THEN member_expression(m.r.p, m.r.node)
            ELSE IF m.r.p.curr_token.type = "Equals"
            THEN variable_statement(m.r.p, m.r.node)
            ELSE m.r
    IN  Prefix(member_prefix_expression(p, base))

\* the loop of list_literal; the items are in the node field
list_items(p, items) ==
    LET Comma(r, comma) ==
            IF ~comma.ok THEN comma ELSE list_items(comma.p, Append(items, r.node))
        Closed(r, close) ==
            IF ~close.ok THEN close ELSE Parsed(close.p, ListLiteral(Append(items, r.node)))
        Item(r) ==
            IF ~r.ok THEN r
            ELSE IF r.p.curr_token.type = "CloseSqBracket"
            THEN Closed(r, eat(r.p, Simple("CloseSqBracket")))
            ELSE Comma(r, eat(r.p, Simple("Comma")))
    IN  Item(expression(p, 0))

\* list = [(expression),*]
list_literal(p) ==
    LET Empty(close) ==
            IF ~close.ok THEN close ELSE Parsed(close.p, ListLiteral(<<>>))
        Opened(open) ==
            IF ~open.ok THEN open
            ELSE IF open.p.curr_token.type = "CloseSqBracket"
            THEN Empty(eat(open.p, Simple("CloseSqBracket")))
            ELSE list_items(open.p, <<>>)
    IN  Opened(eat(p, Simple("OpenSqBracket")))

\* the current token is an Identifier
parse_identifier(p) ==
    LET ident == p.curr_token.ident
        None(r) == IF r.ok THEN Parsed(r.p, Lit(NoneSymbol)) ELSE r
        Name(name) ==
            IF ~name.ok THEN name
            ELSE IF name.p.curr_token.type = "Equals"
            THEN variable_statement(name.p, name.node)
            ELSE name
        Ahead(ahead) ==
            IF ahead.panic THEN Failed(Parser(p.lexer, p.curr_token, TRUE), "panic")
            ELSE IF ahead.token.type = "OpenParen"
            THEN call_expression(advance_token(p), Identifier(ident))
            ELSE IF ahead.token.type \in {"OpenSqBracket", "Dot"}
            THEN member_expression(advance_token(p), Identifier(ident))
            ELSE CASE ident = "return" -> return_expression(p)
                   [] ident = "true" -> Parsed(advance_token(p), Lit(Boolean(TRUE)))
                   [] ident = "false" -> Parsed(advance_token(p), Lit(Boolean(FALSE)))
                   [] ident = "none" -> None(eat(p, p.curr_token))
                   [] OTHER -> Name(eat_identifier(p))
    IN  Ahead(lookahead(p.lexer, 1))

\* unary_expression = "-" expression
unary_expression(p) ==
    LET Operand(r) == IF ~r.ok THEN r ELSE Parsed(r.p, UnaryExpression(r.node))
        Minus(minus) == IF ~minus.ok THEN minus ELSE Operand(expression(minus.p, 4))
    IN  Minus(eat(p, Simple("Minus")))

\* parenthesized_expression = "(" expression ")"
parenthesized_expression(p) ==
    LET Closed(r, close) == IF ~close.ok THEN close ELSE Parsed(close.p, r.node)
        Inner(r) == IF ~r.ok THEN r ELSE Closed(r, eat(r.p, Simple("CloseParen")))
        Opened(open) == IF ~open.ok THEN open ELSE Inner(expression(open.p, 0))
    IN  Opened(eat(p, Simple("OpenParen")))

prefix(p) ==
    CASE p.curr_token.type = "OpenParen" -> parenthesized_expression(p)
      [] p.curr_token.type = "Minus" -> unary_expression(p)
      [] p.curr_token.type = "Identifier" -> parse_identifier(p)
      [] p.curr_token.type = "OpenSqBracket" -> list_literal(p)
      [] OTHER -> eat_literal(p)

\* infix = operator expression
infix(p, left, operator) ==
    LET Right(right) ==
            IF ~right.ok THEN right
            ELSE Parsed(right.p, BinaryExpression(left, operator.type, right.node))
        Operator(op, operator_precedence) ==
            IF ~op.ok THEN op
            ELSE Right(expression(op.p, IF operator.type = "Carat"
                                        THEN operator_precedence - 1
                                        ELSE operator_precedence))
    IN  Operator(eat_operator(p), get_precedence(operator))

\* the while loop of expression
expression_loop(p, left, precedence) ==
    LET Again(r) == IF r.ok THEN expression_loop(r.p, r.node, precedence) ELSE r
    IN  IF ~is_end_line(p.curr_token) /\ precedence < get_precedence(p.curr_token)
        THEN Again(infix(p, left, p.curr_token))
        ELSE Parsed(p, left)

\* expression = prefix (infix)*
expression(p, precedence) ==
    LET Left(left) == IF left.ok THEN expression_loop(left.p, left.node, precedence) ELSE left
    IN  Left(prefix(p))

statement(p) == expression(p, 0)

RECURSIVE statement_list(_, _)
\* statement_list = statement+, one to a line; the nodes are in the node field
statement_list(p, statements) ==
    LET Line(s, nl) ==
            IF s.p.curr_token.type = "EOF" THEN Parsed(s.p, Append(statements, s.node))
            ELSE IF ~nl.ok THEN nl
            ELSE statement_list(nl.p, Append(statements, s.node))
        Statement(s) == IF ~s.ok THEN s ELSE Line(s, eat(s.p, Simple("Newline")))
    IN  IF p.curr_token.type = "EOF" THEN Parsed(p, statements)
        ELSE IF p.curr_token.type = "Newline"
        THEN statement_list(advance_token(p), statements)
        ELSE Statement(statement(p))

\* Parser::new(src).parse(): Ok(Program(statements)), Err(message) or a panic
Parser_parse(src) ==
    LET Program(r) ==
            [ok |-> r.ok /\ ~r.p.panic, program |-> IF r.ok THEN r.node ELSE <<>>,
             err |-> r.err, panic |-> r.p.panic, lexer |-> r.p.lexer]
    IN  Program(statement_list(Parser_new(src), <<>>))

(***************************************************************************)
(* symbol.rs: Range, and the operators of binary expressions.              *)
(***************************************************************************)
Range(start, end, increment, ticker) ==
    [t |-> "Range",
     v |-> [start |-> start, end |-> end, increment |-> increment, ticker |-> ticker]]

\* Range::new: increment is <<>> (None) or <<k>> (Some(k))
Range_new(start, end, increment) ==
    Range(start, end, IF increment = <<>> THEN 1 ELSE increment[1], start)

\* a number that is no finite f64: the quotient of a division by zero, and
\* whatever is computed from one
NotFinite == [t |-> "Number", v |-> 0, d |-> 0]
IsFinite(s) == s.t = "Number" => Den(s) # 0

\* PartialEq of Symbol (derived); a Range equals nothing
SymbolEq(left, right) == left.t = right.t /\ left.t # "Range" /\ left = right

Arithmetic(left, right, value, msg) ==
    IF left.t = "Number" /\ right.t = "Number"
    THEN IF IsFinite(left) /\ IsFinite(right) THEN Ok(value) ELSE Ok(NotFinite)
    ELSE Err(msg)

Symbol_add(left, right) ==
    IF left.t = "String" /\ right.t = "String" THEN Ok(StringSymbol(left.v \o right.v))
    ELSE Arithmetic(left, right,
                    Float(left.v * Den(right) + right.v * Den(left), Den(left) * Den(right)),
                    "unsupported operand type for +")

Symbol_sub(left, right) ==
    Arithmetic(left, right,
               Float(left.v * Den(right) - right.v * Den(left), Den(left) * Den(right)),
               "unsupported operand type for -")

Symbol_mul(left, right) ==
    Arithmetic(left, right, Float(left.v * right.v, Den(left) * Den(right)),
               "unsupported operand type for *")

Symbol_div(left, right) ==
    Arithmetic(left, right,
               IF right.v = 0 THEN NotFinite
               ELSE Float(left.v * Den(right), Den(left) * right.v),
               "unsupported operand type for /")

Symbol_pow(left, right) ==
    Arithmetic(left, right,
               IF Den(right) # 1 \/ (left.v = 0 /\ right.v < 0) THEN NotFinite
               ELSE powf(left, right),
               "can't raise the power of non-number")

\* PartialOrd of f64 and of bool (false < true); the lines compare no strings
LiteralLess(left, right) ==
    CASE left.t = "Number" -> FloatLess(left, right)
      [] left.t = "Boolean" -> ~left.v /\ right.v

compare_literal(left, operator, right) ==
    CASE operator = "GreaterThan" -> LiteralLess(right, left)
      [] operator = "LessThan" -> LiteralLess(left, right)
      [] operator = "Ge" -> ~LiteralLess(left, right)
      [] operator = "Le" -> ~LiteralLess(right, left)

compare_relational(left, op, right) ==
    IF left.t = right.t /\ left.t \in {"Number", "Boolean"}
    THEN Ok(Boolean(compare_literal(left, op, right)))
    ELSE Err("type mismatch")

\* symbol.rs eval_binary_expression
Symbol_eval_binary_expression(left, operator, right) ==
    CASE operator = "Plus" -> Symbol_add(left, right)
      [] operator = "Minus" -> Symbol_sub(left, right)
      [] operator = "Asterisk" -> Symbol_mul(left, right)
      [] operator = "ForwardSlash" -> Symbol_div(left, right)
      [] operator = "Carat" -> Symbol_pow(left, right)
      [] operator = "DoubleEquals" -> Ok(Boolean(SymbolEq(left, right)))
      [] operator = "NotEquals" -> Ok(Boolean(~SymbolEq(left, right)))
      [] operator = "And" -> Ok(right)
      [] operator = "Or" -> IF is_truthy(left) THEN Ok(left) ELSE Ok(right)
      [] operator \in {"GreaterThan", "LessThan", "Ge", "Le"} ->
            compare_relational(left, operator, right)
      [] OTHER -> Err("unsupported operator")

(***************************************************************************)
(* evaluator.rs: the recursive evaluation of an expression.  An evaluation *)
(* yields the symbol table after it, the Result<Option<Symbol>, String>    *)
(* (ok, some, val, err), the nodes it evaluated in order, each named by    *)
(* its path from the root (visited), and whether every number it computed  *)
(* was finite.                                                             *)
(***************************************************************************)
Evaluated(st, option, visited, finite) ==
    [st |-> st, ok |-> TRUE, some |-> option.some, val |-> option.val, err |-> "",
     visited |-> visited, finite |-> finite]
EvalFailed(st, msg, visited, finite) ==
    [st |-> st, ok |-> FALSE, some |-> FALSE, val |-> NoneSymbol, err |-> msg,
     visited |-> visited, finite |-> finite]

\* `num as i32` of a finite f64: towards zero
as_i32(s) == IF s.v >= 0 THEN s.v \div Den(s) ELSE -((-s.v) \div Den(s))

RECURSIVE ASTEvaluator_eval_node(_, _, _)
RECURSIVE eval_unary_expression(_, _, _)
RECURSIVE eval_binary_expression_eager(_, _, _)
RECURSIVE eval_binary_expression(_, _, _)
RECURSIVE eval_variable_expression(_, _, _)
RECURSIVE visit_range_prop(_, _, _)
RECURSIVE visit_range_expression(_, _, _)

eval_unary_expression(st, node, path) ==
    LET Negate(r) ==
            IF ~r.ok \/ ~r.some THEN r
            ELSE IF r.val.t = "Number"
            THEN Evaluated(r.st, Some([r.val EXCEPT !.v = -@]), r.visited, r.finite)
            ELSE Evaluated(r.st, NoneOption, r.visited, r.finite)
    IN  Negate(ASTEvaluator_eval_node(st, node.node, Append(path, "node")))

\* a binary expression that evaluates both operands before it looks at the
\* operator
eval_binary_expression_eager(st, be, path) ==
    LET Result(right, visited, finite, result) ==
            IF result.ok
            THEN Evaluated(right.st, Some(result.val), visited, finite /\ IsFinite(result.val))
            ELSE EvalFailed(right.st, result.err, visited, finite)
        Both(left, right, visited, finite) ==
            IF ~left.ok \/ ~left.some THEN left
            ELSE IF ~right.ok \/ ~right.some
            THEN [right EXCEPT !.visited = visited, !.finite = finite]
            ELSE Result(right, visited, finite,
                        Symbol_eval_binary_expression(left.val, be.operator, right.val))
        Right(left, right) ==
            Both(left, right, left.visited \o right.visited, left.finite /\ right.finite)
        Left(left) ==
            Right(left, ASTEvaluator_eval_node(left.st, be.right, Append(path, "right")))
    IN  Left(ASTEvaluator_eval_node(st, be.left, Append(path, "left")))

eval_binary_expression(st, be, path) ==
    LET Result(right, visited, finite, result) ==
            IF result.ok
            THEN Evaluated(right.st, Some(result.val), visited, finite /\ IsFinite(result.val))
            ELSE EvalFailed(right.st, result.err, visited, finite)
        Right(left, right, visited, finite) ==
            IF ~right.ok \/ ~right.some
            THEN [right EXCEPT !.visited = visited, !.finite = finite]
            ELSE Result(right, visited, finite,
                        Symbol_eval_binary_expression(left.val, be.operator, right.val))
        Visited(left, right) ==
            Right(left, right, left.visited \o right.visited, left.finite /\ right.finite)
        Left(left) ==
            IF ~left.ok \/ ~left.some THEN left
            ELSE IF be.operator = "And" /\ ~is_truthy(left.val) THEN left
            ELSE IF be.operator = "Or" /\ is_truthy(left.val) THEN left
            ELSE Visited(left, ASTEvaluator_eval_node(left.st, be.right, Append(path, "right")))
    IN  Left(ASTEvaluator_eval_node(st, be.left, Append(path, "left")))

\* the left-hand side is a name
eval_variable_expression(st, node, path) ==
    LET Assign(rhs) ==
            IF ~rhs.ok THEN rhs
            ELSE IF ~rhs.some
            THEN EvalFailed(rhs.st, "right hand side not found", rhs.visited, rhs.finite)
            ELSE Evaluated(set(rhs.st, node.lhs.name, rhs.val), NoneOption, rhs.visited,
                           rhs.finite)
    IN  Assign(ASTEvaluator_eval_node(st, node.rhs, Append(path, "rhs")))

\* the closure of visit_range_expression: val is the i32 of the property
visit_range_prop(st, node, path) ==
    LET Prop(r) ==
            IF ~r.ok THEN r
            ELSE IF ~r.some THEN EvalFailed(r.st, "invalid range", r.visited, r.finite)
            ELSE IF r.val.t # "Number"
            THEN EvalFailed(r.st, "range property must be a number", r.visited, r.finite)
            ELSE [r EXCEPT !.val = as_i32(r.val)]
    IN  Prop(ASTEvaluator_eval_node(st, node, path))

visit_range_expression(st, range_expr, path) ==
    LET some == range_expr.increment # <<>>
        Increment(start, end, inc) ==
            IF some /\ ~inc.ok
            THEN [inc EXCEPT !.visited = start.visited \o end.visited \o @]
            ELSE Evaluated(IF some THEN inc.st ELSE end.st,
                           Some(Range_new(start.val, end.val,
                                          IF some THEN <<inc.val>> ELSE <<>>)),
                           start.visited \o end.visited
                               \o (IF some THEN inc.visited ELSE <<>>),
                           start.finite /\ end.finite /\ (some => inc.finite))
        End(start, end) ==
            IF ~end.ok THEN [end EXCEPT !.visited = start.visited \o @]
            ELSE Increment(start, end,
                           visit_range_prop(end.st, range_expr.increment[1],
                                            Append(path, "increment")))
        Start(start) ==
            IF ~start.ok THEN start
            ELSE End(start, visit_range_prop(start.st, range_expr.end, Append(path, "end")))
    IN  Start(visit_range_prop(st, range_expr.start, Append(path, "start")))

\* eval_node for the nodes of expressions
ASTEvaluator_eval_node(st, node, path) ==
    LET Leaf(s) ==
            IF s.ok THEN Evaluated(st, Some(s.val), <<>>, TRUE)
            ELSE EvalFailed(st, s.err, <<>>, TRUE)
        Visit(r) == [r EXCEPT !.visited = <<path>> \o @]
    IN  Visit(CASE node.e = "BinaryExpression" -> eval_binary_expression(st, node, path)
                [] node.e = "UnaryExpression" -> eval_unary_expression(st, node, path)
                [] node.e = "VariableExpression" -> eval_variable_expression(st, node, path)
                [] node.e = "RangeExpression" -> visit_range_expression(st, node, path)
                [] OTHER -> Leaf(eval_node(st, node)))

\* eval_node of an expression that yields a value and changes nothing
eval_expression(st, node) ==
    LET Result(r) == IF r.ok THEN Ok(r.val) ELSE Err(r.err)
    IN  Result(ASTEvaluator_eval_node(st, node, <<>>))

(***************************************************************************)
(* The evaluator's state.                                                  *)
(*   symbol_table  ASTEvaluator.symbol_table                               *)
(*   calls         the pending activations of eval_if_statement,           *)
(*                 eval_for_statement and visit_function, innermost last;  *)
(*                 each is evaluating the statements of its block          *)
(*   last          the node evaluated last and its result                  *)
(*   lexer         the Lexer of the parser at work, its source and cursor  *)
(*   steps         the number of nodes evaluated so far                    *)
(* An entry of calls also records what the activation saw when it started  *)
(* (at_entry: the active inner stack, the number of inner stacks, the       *)
(* bindings of the non-global frames and the names that were unbound), the *)
(* id of the frame it pushed (frame), and ret, the value of the first      *)
(* return statement evaluated in a block nested in its block, which the    *)
(* activation received and dropped, with the kind of block it came from.   *)
(***************************************************************************)
NoReturn == [some |-> FALSE, val |-> NoneSymbol, via |-> ""]
Returned(sym, via) == [some |-> TRUE, val |-> sym, via |-> via]

Log(op, name, res) == [op |-> op, name |-> name, res |-> res]

NonGlobalIds(stack) == {stack[p].id : p \in {q \in 1..Len(stack) : stack[q].kind # "Global"}}

Snapshot(st) ==
    [stack |-> curr_stack(st.scope),
     outer |-> Len(st.scope.scope),
     bindings |-> [id \in NonGlobalIds(curr_stack(st.scope)) |-> st.scoped_table[id]],
     unbound |-> {n \in Names : ~find(st, n).found}]

Activation(fn, variable, iter, st) ==
    [fn |-> fn, variable |-> variable, iter |-> iter, frame |-> st.scope.counter,
     at_entry |-> Snapshot(st), ret |-> NoReturn]

Top(s) == s[Len(s)]
Pop(s) == SubSeq(s, 1, Len(s) - 1)

Panicked == last.op = "panic"
\* a frame may be pushed: the model bounds the frames alive at once
CanPush == symbol_table.scope.counter <= MaxDepth

Init ==
    /\ symbol_table = SymbolTable_from(get_global_vars(<<>>))
    /\ calls = <<>>
    /\ last = Log("new", "", Ok(NoneSymbol))
    /\ steps = 0
    /\ lexer = Lexer_new(<<>>)

\* one more node is evaluated, unless the process has panicked
Step ==
    /\ ~Panicked
    /\ steps < MaxSteps
    /\ steps' = steps + 1
    /\ UNCHANGED lexer

\* an error propagates by `?` through every pending activation to eval's
\* caller: no pending activation pops its scope
Fail(op, name, res) ==
    /\ calls' = <<>>
    /\ last' = Log(op, name, res)

\* a write that reaches every binding that holds the value written over, as
\* it would if reading a variable handed out the stored value itself
write_back_shared(st, id, name, symbol) ==
    [st EXCEPT !.scoped_table =
        [i \in DOMAIN st.scoped_table |->
            [n \in DOMAIN st.scoped_table[i] |->
                IF st.scoped_table[i][n] = st.scoped_table[id][name]
                THEN symbol
                ELSE st.scoped_table[i][n]]]]

\* the write through the reference get_mut returns: the binding of name in
\* frame id is replaced
write_back(st, id, name, symbol) == [st EXCEPT !.scoped_table[id][name] = symbol]

\* eval_node, arms Identifier and IndexExpression: an expression statement
EvalExpression(node) ==
    /\ Step
    /\ LET res == eval_node(symbol_table, node)
       IN  /\ last' = Log(node.e, node.name, res)
           /\ calls' = IF res.ok THEN calls ELSE <<>>
           /\ UNCHANGED symbol_table

\* eval_variable_expression with an identifier on the left
EvalVariableExpression(name, rhs_node) ==
    /\ Step
    /\ LET Assign(rhs) ==
               IF ~rhs.ok
               THEN Fail("VariableExpression", name, rhs) /\ UNCHANGED symbol_table
               ELSE /\ symbol_table' = set(symbol_table, name, rhs.val)
                    /\ last' = Log("VariableExpression", name, Ok(NoneSymbol))
                    /\ UNCHANGED calls
       IN  Assign(eval_expression(symbol_table, rhs_node))

\* eval_variable_expression with an index expression on the left:
\* the right-hand side, then eval_index, then get_symbol_mut, get_index_mut
\* and the write
EvalIndexAssignment(name, index, rhs_node) ==
    /\ Step
    /\ LET rhs == eval_node(symbol_table, rhs_node)
           f == find(symbol_table, name)
           out == Symbol_get_index_mut(symbol_table.scoped_table[f.id][name], index, rhs.val)
           log == Log("IndexAssignment", name, Ok(NoneSymbol))
       IN  IF ~rhs.ok
           THEN Fail("IndexAssignment", name, rhs) /\ UNCHANGED symbol_table
           ELSE IF rhs.val.t # "Number"
           THEN FALSE  \* the programs modelled store numbers in lists
           ELSE IF ~f.found
           THEN /\ calls' = <<>>
                /\ last' = [log EXCEPT !.res = Err(NotDefined(name))]
                /\ UNCHANGED symbol_table
           ELSE IF out.panic
           THEN /\ last' = [log EXCEPT !.op = "panic"]
                /\ UNCHANGED <<symbol_table, calls>>
           ELSE /\ symbol_table' = write_back(symbol_table, f.id, name, out.recv)
                /\ last' = [log EXCEPT !.res = out.res]
                /\ calls' = IF out.res.ok THEN calls ELSE <<>>

\* the length of a list or string
Size(symbol) == IF symbol.t \in {"List", "String"} THEN Len(symbol.v) ELSE 0

\* the arguments a program gives a method
MethodArgs(method) ==
    CASE method = "push" -> {<<Number(1)>>}
      [] method = "insert" -> {<<Number(0), Number(1)>>}
      [] method = "remove" -> {<<Number(i)>> : i \in {0, MaxLen}}
      [] OTHER -> {<<>>}

\* eval_call_expression with a member expression as base, the member's base
\* an identifier: visit_member_expression_call
EvalMethodCall(name, method, args) ==
    /\ Step
    /\ LET f == find(symbol_table, name)
           self == symbol_table.scoped_table[f.id][name]
           out == Symbol_call(self, method, args)
           log == Log(method, name, out.res)
       IN  IF ~f.found
           THEN Fail(method, name, Err(NotDefined(name))) /\ UNCHANGED symbol_table
           ELSE /\ Size(out.recv) <= MaxLen
                /\ IF out.panic
                   THEN /\ last' = [log EXCEPT !.op = "panic"]
                        /\ UNCHANGED <<symbol_table, calls>>
                   ELSE /\ symbol_table' = write_back(symbol_table, f.id, name, out.recv)
                        /\ last' = log
                        /\ calls' = IF out.res.ok THEN calls ELSE <<>>

\* eval_node, arm FunctionStatement
EvalFunctionStatement(name, args) ==
    /\ Step
    /\ symbol_table' = set(symbol_table, name, Function(args))
    /\ last' = Log("FunctionStatement", name, Ok(NoneSymbol))
    /\ UNCHANGED calls

\* eval_if_statement up to the evaluation of the block it chose; the
\* condition is a literal
EvalIfStatement(condition, has_alternative) ==
    /\ Step
    /\ IF is_truthy(condition) \/ has_alternative
       THEN /\ CanPush
            /\ symbol_table' = SymbolTable_push_scope(symbol_table, "ConditionalBlock")
            /\ calls' = Append(calls, Activation("eval_if_statement", "", <<>>, symbol_table))
            /\ last' = Log("if_enter", "", Ok(NoneSymbol))
       ELSE /\ last' = Log("if_skip", "", Ok(NoneSymbol))
            /\ UNCHANGED <<symbol_table, calls>>

\* a Range::next that stops one value late
Range_next_inclusive(r) ==
    IF \/ r.v.increment > 0 /\ r.v.ticker > r.v.end
       \/ r.v.increment < 0 /\ r.v.ticker < r.v.end
    THEN [range |-> r, next |-> NoneOption]
    ELSE [range |-> [r EXCEPT !.v.ticker = @ + r.v.increment],
          next |-> Some(Number(r.v.ticker))]

\* Range::next: the range after the call and the Option it returns
Range_next(r) ==
    IF \/ r.v.increment > 0 /\ r.v.ticker >= r.v.end
       \/ r.v.increment < 0 /\ r.v.ticker <= r.v.end
    THEN [range |-> r, next |-> NoneOption]
    ELSE [range |-> [r EXCEPT !.v.ticker = @ + r.v.increment],
          next |-> Some(Number(r.v.ticker))]

RECURSIVE RangeItems(_)
\* the values the iterator r yields up to its first None; the increment of
\* r is not 0
RangeItems(r) ==
    LET n == Range_next(r)
    IN  IF n.next.some THEN <<n.next.val>> \o RangeItems(n.range) ELSE <<>>

\* the items a collection yields: visit_iterable
visit_iterable(symbol) ==
    CASE symbol.t = "List" -> [ok |-> TRUE, items |-> symbol.v, err |-> ""]
      [] symbol.t = "Range" -> [ok |-> TRUE, items |-> RangeItems(symbol), err |-> ""]
      [] symbol.t = "String" ->
            [ok |-> TRUE, items |-> [i \in 1..Len(symbol.v) |-> StringSymbol(<<symbol.v[i]>>)],
             err |-> ""]
      [] OTHER -> [ok |-> FALSE, items |-> <<>>, err |-> "is not iterable"]

\* eval_for_statement up to the first evaluation of the body (or, over an
\* empty collection, to its end)
EvalForStatement(variable, iterable) ==
    /\ Step
    /\ LET Enter(items, pushed) ==
               /\ CanPush
               /\ IF items = <<>>
                  THEN /\ symbol_table' = SymbolTable_pop_scope(pushed)
                       /\ last' = Log("for_empty", variable, Ok(NoneSymbol))
                       /\ UNCHANGED calls
                  ELSE /\ symbol_table' = set(pushed, variable, items[1])
                       /\ calls' = Append(calls,
                             Activation("eval_for_statement", variable, Tail(items),
                                        symbol_table))
                       /\ last' = Log("for_enter", variable, Ok(items[1]))
           Iterate(it) ==
               IF ~it.ok
               THEN Fail("ForStatement", variable, Err(it.err)) /\ UNCHANGED symbol_table
               ELSE Enter(it.items, SymbolTable_push_scope(symbol_table, "ForBlock"))
           Collection_(symbol) ==
               IF ~symbol.ok
               THEN Fail("ForStatement", variable, symbol) /\ UNCHANGED symbol_table
               ELSE Iterate(visit_iterable(symbol.val))
       IN  Collection_(eval_expression(symbol_table, iterable))

RECURSIVE BindArgs(_, _, _)
\* push_function's loop over the zipped parameters and argument values
BindArgs(st, params, values) ==
    IF params = <<>> \/ values = <<>> THEN st
    ELSE BindArgs(set(st, params[1], values[1]), Tail(params), Tail(values))

\* a validate_function_call that accepts every argument count
validate_function_call_lenient(call_args, func_args) == Ok(NoneSymbol)

\* validate_function_call
validate_function_call(call_args, func_args) ==
    IF Len(call_args) < Len(func_args) THEN Err("missing function args") ELSE Ok(NoneSymbol)

\* visit_function up to the evaluation of the body: the lookup,
\* validate_function_call and push_function
EvalCallExpression(func_name, args) ==
    /\ Step
    /\ LET func == get_symbol(symbol_table, func_name)
           valid == validate_function_call(args, func.val.v)
           arg_values == visit_function_args(symbol_table, args)
           pushed == SymbolTable_push_scope(symbol_table, "FunctionBlock")
       IN  IF ~func.ok
           THEN Fail("CallExpression", func_name, func) /\ UNCHANGED symbol_table
           ELSE IF func.val.t # "Function"
           THEN /\ last' = Log("call_none", func_name, Ok(NoneSymbol))
                /\ UNCHANGED <<symbol_table, calls>>
           ELSE IF ~valid.ok
           THEN Fail("CallExpression", func_name, valid) /\ UNCHANGED symbol_table
           ELSE IF ~arg_values.ok
           THEN Fail("CallExpression", func_name, Err(arg_values.err))
                /\ UNCHANGED symbol_table
           ELSE /\ CanPush
                /\ symbol_table' = BindArgs(pushed, func.val.v, arg_values.vals)
                /\ calls' = Append(calls,
                      Activation("visit_function", func_name, <<>>, symbol_table))
                /\ last' = Log("call_enter", func_name, Ok(NoneSymbol))

\* the calls stack without its innermost activation, whose block returned
\* `pending`: an if or for activation hands nothing to the one around it
\* (the evaluator drops the block's value), which is noted in ret
PopActivation(pending) ==
    LET rest == Pop(calls)
    IN  IF rest # <<>> /\ pending.some /\ ~Top(rest).ret.some
        THEN [rest EXCEPT ![Len(rest)].ret = pending]
        ELSE rest

\* The block of the innermost activation has been evaluated: by a return
\* statement among its statements (ret is its value) or to its last
\* statement.  What follows is the rest of eval_if_statement,
\* eval_for_statement or visit_function.
LeaveBlock(ret) ==
    LET a == Top(calls)
        n == Len(calls)
        via == IF a.fn = "eval_if_statement" THEN "if" ELSE "for"
        pending == IF a.ret.some THEN a.ret
                   ELSE IF ret.some THEN Returned(ret.val, via) ELSE NoReturn
    IN  CASE a.fn = "eval_if_statement" ->
                /\ symbol_table' = SymbolTable_pop_scope(symbol_table)
                /\ calls' = PopActivation(pending)
                /\ last' = Log("if_exit", "", Ok(NoneSymbol))
          [] a.fn = "eval_for_statement" ->
                IF a.iter # <<>>
                THEN /\ symbol_table' = set(symbol_table, a.variable, a.iter[1])
                     /\ calls' = [calls EXCEPT ![n].iter = Tail(@), ![n].ret = pending]
                     /\ last' = Log("for_next", a.variable, Ok(a.iter[1]))
                ELSE /\ symbol_table' = SymbolTable_pop_scope(symbol_table)
                     /\ calls' = PopActivation(pending)
                     /\ last' = Log("for_exit", a.variable, Ok(NoneSymbol))
          [] a.fn = "visit_function" ->
                /\ symbol_table' = SymbolTable_pop_scope(symbol_table)
                /\ calls' = Pop(calls)
                /\ last' = Log("call_exit", a.variable,
                               Ok(IF ret.some THEN ret.val ELSE NoneSymbol))

\* eval_block_statement, arm ReturnStatement (in a block), and eval_node,
\* arm ReturnStatement (a top-level statement)
EvalReturnStatement(node) ==
    /\ Step
    /\ LET res == eval_node(symbol_table, node)
       IN  IF ~res.ok
           THEN Fail("ReturnStatement", node.name, res) /\ UNCHANGED symbol_table
           ELSE IF calls = <<>>
           THEN /\ last' = Log("ReturnStatement", node.name, res)
                /\ UNCHANGED <<symbol_table, calls>>
           ELSE LeaveBlock(Returned(res.val, ""))

\* eval_block_statement: the block has no further statement
EndBlock ==
    /\ Step
    /\ calls # <<>>
    /\ LeaveBlock(NoReturn)

Next ==
    \/ \E node \in ReadExprs : EvalExpression(node)
    \/ \E name \in VarNames, rhs \in Exprs : EvalVariableExpression(name, rhs)
    \/ \E index \in Indexes, rhs \in ElementExprs :
            EvalIndexAssignment(Collection, index, rhs)
    \/ \E method \in Methods :
            \E args \in MethodArgs(method) : EvalMethodCall(Collection, method, args)
    \/ \E name \in FuncNames, args \in ParamLists : EvalFunctionStatement(name, args)
    \/ \E condition \in Conditions, has_alternative \in BOOLEAN :
            EvalIfStatement(condition, has_alternative)
    \/ \E iterable \in IterableExprs : EvalForStatement(LoopVariable, iterable)
    \/ \E name \in Callees, args \in ArgLists : EvalCallExpression(name, args)
    \/ \E node \in ReturnExprs : EvalReturnStatement(node)
    \/ EndBlock

Spec == Init /\ [][Next]_vars

(***************************************************************************)
(* Properties.                                                             *)
(***************************************************************************)
\* the pending activations of visit_function, outermost first
FunctionCalls == SelectSeq(calls, LAMBDA a : a.fn = "visit_function")

\* the ids of the frames of the active inner stack from the frame with id
\* `frame` upwards
FramesSince(frame) ==
    LET stack == curr_stack(symbol_table.scope)
    IN  {stack[q].id : q \in {r \in 1..Len(stack) :
                                 \E p \in 1..r : stack[p].id = frame}}

\* the names bound in one of the frames `ids`
BoundIn(ids) ==
    {n \in Names : \E id \in ids \cap DOMAIN symbol_table.scoped_table :
                        n \in DOMAIN symbol_table.scoped_table[id]}

\* C1: while a function body is being evaluated, a name resolves only to the
\* Global frame or to a frame pushed since the call's FunctionBlock frame,
\* and a name bound in neither (whatever the caller's frames bind) reads as
\* the Name error
FunctionIsolation ==
    FunctionCalls # <<>> =>
        LET visible == {GLOBAL_SCOPE_ID} \cup FramesSince(Top(FunctionCalls).frame)
        IN  \A n \in Names :
                /\ find(symbol_table, n).found => find(symbol_table, n).id \in visible
                /\ get(symbol_table, n).some => n \in BoundIn(visible)
                /\ n \notin BoundIn(visible) =>
                        get_symbol(symbol_table, n) = Err(NotDefined(n))

\* a call made by a function body is being evaluated, and x is bound in the
\* calling function's frame alone
NestedCallHidesCallerLocal ==
    /\ Len(FunctionCalls) = 2
    /\ Top(calls).fn = "visit_function"
    /\ \E id \in DOMAIN Top(calls).at_entry.bindings :
            "x" \in DOMAIN Top(calls).at_entry.bindings[id]
    /\ "x" \notin BoundIn({GLOBAL_SCOPE_ID} \cup FramesSince(Top(calls).frame))

\* C7: the active inner stack is never empty, its bottom frame is the Global
\* frame with id 0, and none of its other frames is a Global frame
GlobalFrameAtBottom ==
    LET stack == curr_stack(symbol_table.scope)
    IN  /\ Len(stack) >= 1
        /\ stack[1] = Scope(0, "Global")
        /\ \A p \in 2..Len(stack) : stack[p].kind # "Global"

\* a function called from inside a block has returned to that block
ReturnedIntoBlock ==
    /\ last.op = "call_exit"
    /\ calls # <<>>
    /\ Len(curr_stack(symbol_table.scope)) = 2

\* every frame that is not a Global sentinel, oldest first
LiveFrames ==
    LET flat[k \in 0..Len(symbol_table.scope.scope)] ==
            IF k = 0 THEN <<>>
            ELSE flat[k - 1] \o SelectSeq(symbol_table.scope.scope[k],
                                           LAMBDA f : f.kind # "Global")
    IN  flat[Len(symbol_table.scope.scope)]

\* C8 (as the code has it): push takes the counter as the id and increments
\* it, pop decrements it; the live frames have the ids 1, 2, ... in the order
\* they were pushed and the counter is one more than their number, so a new
\* frame's id exceeds every live frame's id, and the id of a popped frame is
\* given out again
FrameIdsCountLiveFrames ==
    /\ symbol_table.scope.counter = Len(LiveFrames) + 1
    /\ \A k \in 1..Len(LiveFrames) : LiveFrames[k].id = k

\* C8 (as stated): the counter never decreases
CounterNeverDecreases ==
    [][symbol_table'.scope.counter >= symbol_table.scope.counter]_vars

\* a block has been left and the counter is back at the id it gave out
CounterBackAfterPop ==
    /\ last.op \in {"if_exit", "for_exit", "call_exit"}
    /\ symbol_table.scope.counter = 1

\* C4: when an if statement finishes, every name that was unbound before it
\* is unbound again, and reading it gives the Name error
BlockScoping ==
    [][(calls # <<>> /\ Top(calls).fn = "eval_if_statement" /\ last'.op = "if_exit") =>
            \A n \in Top(calls).at_entry.unbound :
                /\ ~find(symbol_table', n).found
                /\ get_symbol(symbol_table', n) = Err(NotDefined(n))]_vars

\* the block of an if statement has assigned a variable that was unbound
\* before the if statement, and the if statement is about to finish
AssignedInsideIf ==
    /\ calls # <<>>
    /\ Top(calls).fn = "eval_if_statement"
    /\ last.op = "VariableExpression"
    /\ last.name \in Top(calls).at_entry.unbound
    /\ get(symbol_table, last.name).some
    /\ steps < MaxSteps

\* the frame an assignment to name writes: the innermost frame of the active
\* inner stack that binds it, or the topmost frame
Holder(name) ==
    LET stack == curr_stack(symbol_table.scope)
        holders == {p \in 1..Len(stack) :
                        name \in DOMAIN symbol_table.scoped_table[stack[p].id]}
    IN  IF holders = {} THEN stack[Len(stack)].id ELSE stack[Max(holders)].id

\* the table without its binding of name in frame id
Without(st, id, name) == [st EXCEPT !.scoped_table[id] = MapRemove(@, name)]

\* C5: an assignment to name binds name, to the value of a right-hand side,
\* in the innermost frame of the active inner stack that holds name, or in
\* the topmost frame when no frame holds it, and changes no other binding of
\* any frame
AssignmentUpdate ==
    [][(last'.op = "VariableExpression" /\ last'.res.ok) =>
            LET name == last'.name
                id == Holder(name)
            IN  /\ DOMAIN symbol_table'.scoped_table = DOMAIN symbol_table.scoped_table
                /\ name \in DOMAIN symbol_table'.scoped_table[id]
                /\ \E rhs_node \in Exprs :
                        eval_node(symbol_table, rhs_node)
                            = Ok(symbol_table'.scoped_table[id][name])
                /\ Without(symbol_table', id, name) = Without(symbol_table, id, name)]_vars

\* an assignment inside a block or a function body has updated a variable of
\* the Global frame
AssignedGlobalFromBlock ==
    /\ last.op = "VariableExpression"
    /\ last.res.ok
    /\ calls # <<>>
    /\ last.name \in DOMAIN symbol_table.scoped_table[GLOBAL_SCOPE_ID]
    /\ last.name \notin DOMAIN symbol_table.scoped_table[curr(symbol_table.scope).id]

\* C6: when a function call returns, the active inner stack is the one the
\* call was made in and the function's whole inner stack is gone; the return
\* drops the FunctionBlock frame's bindings and no others, and the bindings of
\* the caller's non-global frames are the ones they were at the call
CallRestoresCallerStack ==
    [][(/\ calls # <<>>
        /\ Top(calls).fn = "visit_function"
        /\ last'.op = "call_exit"
        /\ calls' = Pop(calls)) =>
            LET e == Top(calls).at_entry
                new == symbol_table'.scoped_table
            IN  /\ curr_stack(symbol_table'.scope) = e.stack
                /\ Len(symbol_table'.scope.scope) = e.outer
                /\ DOMAIN new = DOMAIN symbol_table.scoped_table \ {Top(calls).frame}
                /\ GLOBAL_SCOPE_ID \in DOMAIN new
                /\ new[GLOBAL_SCOPE_ID] = symbol_table.scoped_table[GLOBAL_SCOPE_ID]
                /\ \A id \in DOMAIN e.bindings : id \in DOMAIN new /\ new[id] = e.bindings[id]]_vars

\* a function called from inside a block that has a local variable has
\* returned to that block
ReturnedToCallerWithLocals ==
    /\ last.op = "call_exit"
    /\ calls # <<>>
    /\ curr(symbol_table.scope).kind # "Global"
    /\ DOMAIN symbol_table.scoped_table[curr(symbol_table.scope).id] # {}

\* between this state and the next, no frame is pushed or popped and no
\* binding other than that of name in frame id appears, disappears or changes
OnlyChanges(id, name) ==
    /\ DOMAIN symbol_table'.scoped_table = DOMAIN symbol_table.scoped_table
    /\ Without(symbol_table', id, name) = Without(symbol_table, id, name)

\* C9: x[i] = v on a list bound to x with i inside it replaces element i of
\* the list stored under x and nothing else, so that x[i] then reads v; and
\* when v fails to evaluate the statement fails with v's error and writes
\* nothing, whatever x is
WriteThroughIndex ==
    [][last'.op = "IndexAssignment" =>
        \A index \in Indexes, rhs_node \in ElementExprs :
            EvalIndexAssignment(Collection, index, rhs_node) =>
                LET rhs == eval_node(symbol_table, rhs_node)
                    target == get(symbol_table, Collection)
                    new == symbol_table'.scoped_table[Holder(Collection)][Collection]
                IN  /\ ~rhs.ok => last'.res = rhs /\ symbol_table' = symbol_table
                    /\ (/\ rhs.ok
                        /\ target.some
                        /\ target.val.t = "List"
                        /\ index < Len(target.val.v)) =>
                            /\ last'.res.ok
                            /\ new.t = "List"
                            /\ Len(new.v) = Len(target.val.v)
                            /\ \A k \in 1..Len(new.v) :
                                    new.v[k] = IF k = index + 1 THEN rhs.val
                                               ELSE target.val.v[k]
                            /\ OnlyChanges(Holder(Collection), Collection)
                            /\ visit_index_expression(symbol_table', Collection, index)
                                    = Ok(rhs.val)]_vars

\* the second element of the list [1, 2] under x has been assigned 1
SecondElementAssigned ==
    /\ last.op = "IndexAssignment"
    /\ last.res.ok
    /\ get(symbol_table, Collection) = Some(List(<<Number(1), Number(1)>>))

\* C10: an index assignment or a method call on x changes the binding x
\* resolves to and no other, an assignment to a variable changes the binding
\* that variable resolves to and no other, and evaluating an expression
\* changes no binding: no two bindings share a value
NoAliasing ==
    [][/\ last'.op \in {"IndexAssignment", "panic"} \cup Methods =>
            OnlyChanges(Holder(Collection), Collection)
       /\ last'.op = "VariableExpression" => OnlyChanges(Holder(last'.name), last'.name)
       /\ last'.op \in {"Identifier", "IndexExpression"} =>
            symbol_table' = symbol_table]_vars

\* y holds the list [1], which only a copy of x's list gives it, and x's
\* list has been pushed to since
CopyThenPush ==
    /\ last.op = "push"
    /\ last.res.ok
    /\ get(symbol_table, "x") = Some(List(<<Number(1), Number(1)>>))
    /\ get(symbol_table, "y") = Some(List(<<Number(1)>>))

\* C2 (as stated): once a return statement in an if block nested in a function
\* body has been evaluated, the next step leaves the block that contains the
\* if statement, and when that block is the function body the call returns
\* the value of the return statement
ReturnInIfEndsFunction ==
    [][(/\ calls # <<>>
        /\ FunctionCalls # <<>>
        /\ Top(calls).ret.some
        /\ Top(calls).ret.via = "if") =>
            /\ Len(calls') < Len(calls)
            /\ Top(calls).fn = "visit_function" =>
                    last'.op = "call_exit" /\ last'.res = Ok(Top(calls).ret.val)]_vars

\* C3 (as stated): once a return statement in the body of a for loop has been
\* evaluated, no further item is bound to the loop variable
ReturnInForStopsLoop ==
    (calls # <<>> /\ Top(calls).fn = "eval_for_statement" /\ last.op = "for_next") =>
        ~Top(calls).ret.some

(***************************************************************************)
(* The lexer at work on one source: a Parser pulls tokens with next_token  *)
(* and looks ahead with lookahead (parser.rs advance_token, lookahead).    *)
(***************************************************************************)
\* the bytes of the sources lexed
SourceBytes == {"1", "x", " ", "#", "\n", "$"}
\* the longest source lexed
MaxSource == 4
\* the longest lookahead asked for
MaxDistance == 3

RECURSIVE SeqsUpTo(_, _)
\* the sequences over S of length at most n
SeqsUpTo(S, n) ==
    IF n = 0 THEN {<<>>}
    ELSE LET shorter == SeqsUpTo(S, n - 1)
         IN  shorter \cup {Append(s, e) : s \in {t \in shorter : Len(t) = n - 1}, e \in S}

Sources == SeqsUpTo(SourceBytes, MaxSource)

LexInit ==
    /\ symbol_table = SymbolTable_from(get_global_vars(<<>>))
    /\ calls = <<>>
    /\ last = Log("new", 0, EOF)
    /\ steps = 0
    /\ lexer \in {Lexer_new(src) : src \in Sources}

\* what a call on the lexer leaves: the token it returned, or the panic
LexStep(op, distance, lexed) ==
    /\ ~Panicked
    /\ lexer' = lexed.lexer
    /\ last' = IF lexed.panic THEN Log("panic", distance, EOF)
               ELSE Log(op, distance, lexed.token)
    /\ UNCHANGED <<symbol_table, calls, steps>>

\* Parser::advance_token; once EOF is returned the parser asks no more
AdvanceToken ==
    /\ last.res.type # "EOF" \/ last.op = "lookahead" \/ last.op = "new"
    /\ LexStep("next_token", 0, next_token(lexer))

Lookahead(distance) == LexStep("lookahead", distance, lookahead(lexer, distance))

LexNext ==
    \/ AdvanceToken
    \/ \E distance \in 1..MaxDistance : Lookahead(distance)

LexSpec == LexInit /\ [][LexNext]_vars

RECURSIVE NthToken(_, _)
\* what the k-th of k successive next_token calls returns
NthToken(lx, k) ==
    LET n == next_token(lx)
    IN  IF k <= 1 \/ n.panic THEN [token |-> n.token, panic |-> n.panic]
        ELSE NthToken(n.lexer, k - 1)

\* C20: lookahead(k), k >= 1, leaves the cursor where it was and returns the
\* token that the k-th of k successive next_token calls would return
\* (whitespace and line comments skipped, Newline counted), which is EOF
\* when the input ends first.
LookaheadIsKthNextToken ==
    [][last'.op = "lookahead" =>
            /\ lexer' = lexer
            /\ ~NthToken(lexer, last'.name).panic
            /\ last'.res = NthToken(lexer, last'.name).token]_vars

\* a lookahead past a comment, a newline and blanks found the identifier
LookedPastCommentAndNewline ==
    /\ last.op = "lookahead"
    /\ last.name = 2
    /\ last.res.type = "Identifier"
    /\ lexer.src[1] = "#"
    /\ lexer.cursor = 0

(***************************************************************************)
(* One line handed to the interpreter: main.rs interpret parses the buffer *)
(* with a new Parser and evaluates the program with its evaluator.  The    *)
(* lines are written as sequences of lexemes, which the source separates   *)
(* by blanks; last.name keeps the lexemes of the line being interpreted.   *)
(***************************************************************************)
RECURSIVE Join(_)
\* the bytes of a line: its lexemes, a blank after each
Join(lexemes) ==
    IF lexemes = <<>> THEN <<>> ELSE lexemes[1] \o <<" ">> \o Join(Tail(lexemes))

Operands == {<<"1">>, <<"2">>, <<"3">>}
SmallOperands == {<<"1">>, <<"2">>}
ArithmeticOperators == {<<"+">>, <<"-">>, <<"*">>, <<"/">>, <<"^">>}
ComparisonOperators == {<<"=", "=">>, <<"!", "=">>, <<"<">>, <<">">>, <<"<", "=">>, <<">", "=">>}
LogicalOperators == {<<"&", "&">>, <<"|", "|">>}
Open == <<"(">>
Close == <<")">>

\* a op b op c
ArithmeticLines ==
    {<<a, op1, b, op2, c>> : a \in Operands, op1 \in ArithmeticOperators, b \in Operands,
                             op2 \in ArithmeticOperators, c \in SmallOperands}
\* -a ^ b and (-a) ^ b
UnaryLines ==
    {<<<<"-">>, a, <<"^">>, b>> : a \in Operands, b \in SmallOperands}
    \cup {<<Open, <<"-">>, a, Close, <<"^">>, b>> : a \in Operands, b \in SmallOperands}
\* a cmp b log c cmp d
ConditionLines ==
    {<<a, cmp1, b, log, c, cmp2, d>> :
        a \in SmallOperands, cmp1 \in ComparisonOperators, b \in SmallOperands,
        log \in LogicalOperators,
        c \in SmallOperands, cmp2 \in ComparisonOperators, d \in SmallOperands}
\* x = 0 <newline> L log R, where R may count its evaluations in x
LeftOperands ==
    {<<<<"0">>>>, <<<<"1">>>>, <<<<"t", "r", "u", "e">>>>, <<<<"f", "a", "l", "s", "e">>>>,
     <<<<"n", "o", "n", "e">>>>, <<<<"'", "'">>>>, <<<<"'", "a", "'">>>>, <<<<"x">>>>}
RightOperands ==
    {<<<<"2">>>>, <<<<"0">>>>, <<<<"n", "o", "n", "e">>>>, <<<<"'", "a", "'">>>>,
     <<<<"x">>, <<"=">>, <<"x">>, <<"+">>, <<"1">>>>}
ShortCircuitLines ==
    {<<<<"x">>, <<"=">>, <<"0">>, <<"\n">>>> \o l \o <<log>> \o r :
        l \in LeftOperands, log \in LogicalOperators, r \in RightOperands}
\* lines with a `$` that names no variable
DollarLines == {<<<<"$">>>>, <<<<"x">>, <<"=">>, <<"1">>, <<"\n">>, <<"$">>>>}

Lines == ArithmeticLines \cup UnaryLines \cup ConditionLines \cup ShortCircuitLines
            \cup DollarLines

NoResults == [ok |-> TRUE, results |-> <<>>, err |-> "", visited |-> <<>>]

ReplInit ==
    /\ symbol_table = SymbolTable_from(get_global_vars(<<>>))
    /\ calls = <<>>
    /\ steps = 0
    /\ \E line \in Lines :
        /\ lexer = Lexer_new(Join(line))
        /\ last = Log("new", line, NoResults)

RECURSIVE ASTEvaluator_eval_resuming(_, _, _)
\* an eval that goes on to the next statement after one that failed
ASTEvaluator_eval_resuming(st, program, done) ==
    LET Rest(r, so_far) ==
            ASTEvaluator_eval_resuming(
                r.st, Tail(program),
                IF ~r.ok THEN [so_far EXCEPT !.ok = FALSE, !.results = <<>>, !.err = r.err]
                ELSE [so_far EXCEPT !.results = Append(@, [some |-> r.some, val |-> r.val])])
        Line(r) == Rest(r, [done EXCEPT !.st = r.st,
                                        !.visited = Append(@, r.visited),
                                        !.finite = @ /\ r.finite])
    IN  IF program = <<>> THEN [done EXCEPT !.st = st]
        ELSE Line(ASTEvaluator_eval_node(st, program[1], <<>>))

RECURSIVE ASTEvaluator_eval(_, _, _)
\* ASTEvaluator::eval: the statements of the program in turn, up to the
\* first error; visited has the nodes evaluated, statement by statement
ASTEvaluator_eval(st, program, done) ==
    LET Rest(r, so_far) ==
            IF ~r.ok THEN [so_far EXCEPT !.ok = FALSE, !.results = <<>>, !.err = r.err]
            ELSE ASTEvaluator_eval(r.st, Tail(program),
                                   [so_far EXCEPT !.results =
                                       Append(@, [some |-> r.some, val |-> r.val])])
        Line(r) == Rest(r, [done EXCEPT !.st = r.st,
                                        !.visited = Append(@, r.visited),
                                        !.finite = @ /\ r.finite])
    IN  IF program = <<>> THEN [done EXCEPT !.st = st]
        ELSE Line(ASTEvaluator_eval_node(st, program[1], <<>>))

\* what interpret does with the parse of the buffer: a parse error and an
\* evaluation error are printed, the values of the lines are printed
interpret_program(st, parsed) ==
    LET start == [st |-> st, ok |-> TRUE, results |-> <<>>, err |-> "", visited |-> <<>>,
                  finite |-> TRUE]
    IN  IF parsed.panic THEN [start EXCEPT !.ok = FALSE, !.err = "panic"]
        ELSE IF ~parsed.ok THEN [start EXCEPT !.ok = FALSE, !.err = parsed.err]
        ELSE ASTEvaluator_eval(st, parsed.program, start)

\* interpret: the buffer is parsed and the program evaluated
interpret(st, src) == interpret_program(st, Parser_parse(src))

Interpret ==
    LET Printed(parsed, r) ==
            /\ r.finite
            /\ symbol_table' = r.st
            /\ lexer' = parsed.lexer
            /\ last' = Log(IF parsed.panic THEN "panic" ELSE "interpret", last.name,
                           [ok |-> r.ok, results |-> r.results, err |-> r.err,
                            visited |-> r.visited])
            /\ UNCHANGED <<calls, steps>>
        Parse(parsed) == Printed(parsed, interpret_program(symbol_table, parsed))
    IN  /\ last.op = "new"
        /\ Parse(Parser_parse(lexer.src))

ReplNext == Interpret

ReplSpec == ReplInit /\ [][ReplNext]_vars

\* the table in which the second statement of a ShortCircuitLines line is
\* evaluated: x = 0 was evaluated
AfterFirstStatement == set(SymbolTable_from(get_global_vars(<<>>)), "x", Number(0))

\* how often the evaluation of a statement evaluated the node at path
TimesVisited(visited, path) ==
    Cardinality({i \in 1..Len(visited) : visited[i] = path})

SameOption(a, b) == a.some = b.some /\ a.val.t = b.val.t /\ a.val = b.val

\* C11: short-circuit.  For L && R with L falsy and L || R with L truthy, R
\* is never evaluated and the result is the value of L, not coerced to a
\* Boolean; for L && R with L truthy and L || R with L falsy, R is evaluated
\* exactly once and the result is the value of R.
ShortCircuit ==
    (last.op = "interpret" /\ last.name \in ShortCircuitLines) =>
        LET be == Parser_parse(lexer.src).program[2]
            L == ASTEvaluator_eval_node(AfterFirstStatement, be.left, <<>>)
            R == ASTEvaluator_eval_node(AfterFirstStatement, be.right, <<>>)
            times == TimesVisited(last.res.visited[2], <<"right">>)
            result == last.res.results[2]
        IN  /\ be.e = "BinaryExpression"
            /\ L.ok /\ L.some /\ R.ok
            /\ IF \/ be.operator = "And" /\ ~is_truthy(L.val)
                  \/ be.operator = "Or" /\ is_truthy(L.val)
               THEN /\ times = 0
                    /\ SameOption(result, L)
                    /\ symbol_table = AfterFirstStatement
               ELSE /\ times = 1
                    /\ SameOption(result, R)
                    /\ symbol_table = R.st

\* `0 && x = x + 1` yielded the Number 0 and left x at 0
SkippedTheAssignment ==
    /\ last.op = "interpret"
    /\ last.name \in ShortCircuitLines
    /\ Len(last.name) = 11
    /\ last.name[5] = <<"0">>
    /\ last.name[6] = <<"&", "&">>
    /\ last.res.results[2] = [some |-> TRUE, val |-> Number(0)]
    /\ get(symbol_table, "x") = Some(Number(0))

\* the value that interpreting the one-statement line yields, or its error
ValueOfLine(line) ==
    LET r == interpret(SymbolTable_from(get_global_vars(<<>>)), Join(line))
    IN  [ok |-> r.ok, results |-> r.results, err |-> r.err]

\* C12: comparison operators group before logical operators: the line
\* `a == b || c == d` (and so for !=, <, >, <=, >= and for &&) evaluates to
\* what `(a == b) || (c == d)` evaluates to.
ComparisonsGroupBeforeLogical ==
    (last.op = "interpret" /\ last.name \in ConditionLines) =>
        LET l == last.name
            grouped == ValueOfLine(<<Open, l[1], l[2], l[3], Close, l[4],
                                     Open, l[5], l[6], l[7], Close>>)
        IN  /\ last.res.ok = grouped.ok
            /\ last.res.ok => SameOption(last.res.results[1], grouped.results[1])

\* the operator of a lexeme, as the lexer names it
OperatorOf(lexeme) == peak(Lexer_new(lexeme)).token.type
NumberOf(lexeme) == Lit(Number(peak(Lexer_new(lexeme)).token.int))

\* how tightly the operators of arithmetic bind
Tightness(lexeme) ==
    CASE lexeme = <<"^">> -> 5
      [] lexeme \in {<<"*">>, <<"/">>} -> 3
      [] lexeme \in {<<"+">>, <<"-">>} -> 2

\* a op1 b op2 c with its operands grouped as the precedences and the
\* associativity of the operators say
Grouped(l) ==
    IF Tightness(l[4]) > Tightness(l[2]) \/ (l[2] = <<"^">> /\ l[4] = <<"^">>)
    THEN BinaryExpression(NumberOf(l[1]), OperatorOf(l[2]),
                          BinaryExpression(NumberOf(l[3]), OperatorOf(l[4]), NumberOf(l[5])))
    ELSE BinaryExpression(BinaryExpression(NumberOf(l[1]), OperatorOf(l[2]), NumberOf(l[3])),
                          OperatorOf(l[4]), NumberOf(l[5]))

\* -a ^ b is -(a ^ b); (-a) ^ b negates first
GroupedUnary(l) ==
    IF l[1] = Open
    THEN BinaryExpression(UnaryExpression(NumberOf(l[3])), "Carat", NumberOf(l[6]))
    ELSE UnaryExpression(BinaryExpression(NumberOf(l[2]), "Carat", NumberOf(l[4])))

ValueOfNode(node) ==
    LET r == ASTEvaluator_eval_node(SymbolTable_from(get_global_vars(<<>>)), node, <<>>)
    IN  [some |-> r.some, val |-> r.val]

\* C13: arithmetic precedence and associativity: a+b*c = a+(b*c),
\* a*b+c = (a*b)+c, a^b^c = a^(b^c), a/b/c = (a/b)/c, a-b-c = (a-b)-c,
\* a^b+c = (a^b)+c, -a^b = -(a^b), and (-a)^b negates first.
ArithmeticPrecedence ==
    /\ (last.op = "interpret" /\ last.name \in ArithmeticLines) =>
            /\ last.res.ok
            /\ SameOption(last.res.results[1], ValueOfNode(Grouped(last.name)))
    /\ (last.op = "interpret" /\ last.name \in UnaryLines) =>
            /\ last.res.ok
            /\ SameOption(last.res.results[1], ValueOfNode(GroupedUnary(last.name)))

\* 2 ^ 3 ^ 2 yielded 2 ^ 9, not 8 ^ 2
PowerGroupedToTheRight ==
    /\ last.op = "interpret"
    /\ last.name = <<<<"2">>, <<"^">>, <<"3">>, <<"^">>, <<"2">>>>
    /\ last.res.results = <<Some(Number(512))>>

\* C18: lexical failures are errors, not crashes: a `$` that no
\* alphanumeric byte follows makes Parser::parse return an error, which the
\* REPL prints before it goes on with the evaluator as it was.
LexicalFailureIsAnError ==
    (last.op # "new" /\ last.name \in DollarLines) =>
        /\ last.op = "interpret"
        /\ ~last.res.ok
        /\ symbol_table = SymbolTable_from(get_global_vars(<<>>))

(***************************************************************************)
(* For statements over ranges: `x = s..e..k`, `for y in s..e..k { ... }`   *)
(* and, with the stored range, `for v in x { ... }`.  The body of a loop   *)
(* is evaluated to its end.                                                *)
(***************************************************************************)
RangeBounds == {1, 4}
RangeIncrements == {<<>>, <<Lit(Number(2))>>, <<UnaryExpression(Lit(Number(1)))>>}
RangeExprs ==
    {RangeExpression(Lit(Number(s)), Lit(Number(e)), k) :
        s \in RangeBounds, e \in RangeBounds, k \in RangeIncrements}
\* the name of the stored range and the variable of the loops over it
StoredRange == "x"
StoredRangeVariable == "v"

\* the ranges stored in a variable: 1..4..2 and 4..1..-1
StoredRanges ==
    {RangeExpression(Lit(Number(1)), Lit(Number(4)), <<Lit(Number(2))>>),
     RangeExpression(Lit(Number(4)), Lit(Number(1)), <<UnaryExpression(Lit(Number(1)))>>)}

RangeNext ==
    \/ \E range \in StoredRanges : EvalVariableExpression(StoredRange, range)
    \/ \E range \in RangeExprs : EvalForStatement(LoopVariable, range)
    \/ EvalForStatement(StoredRangeVariable, Identifier(StoredRange))
    \/ EndBlock

RangeSpec == Init /\ [][RangeNext]_vars

RECURSIVE Progression(_, _, _)
\* s, s + k, ... while below e (k > 0) or above e (k < 0)
Progression(s, e, k) ==
    IF (k > 0 /\ s < e) \/ (k < 0 /\ s > e)
    THEN <<Number(s)>> \o Progression(s + k, e, k)
    ELSE <<>>

\* the numbers of a range expression of RangeExprs
StartOf(range) == range.start.val.v
EndOf(range) == range.end.val.v
IncrementOf(range) ==
    IF range.increment = <<>> THEN 1
    ELSE IF range.increment[1].e = "UnaryExpression" THEN -range.increment[1].node.val.v
    ELSE range.increment[1].val.v

SecondLoopVisitsNothing ==
    [][(/\ last.op = "for_exit"
        /\ last.name = StoredRangeVariable
        /\ last'.name = StoredRangeVariable
        /\ last'.op \in {"for_enter", "for_empty"}) => last'.op = "for_empty"]_vars

(***************************************************************************)
(* Calls of a user function with fewer, as many and more arguments than    *)
(* it has parameters.                                                      *)
(***************************************************************************)
CallParamLists == {<<"y">>, <<"x", "y">>}
CallArgLists ==
    {<<>>,
     <<Lit(Number(1))>>,
     <<Identifier("x")>>,
     <<Lit(StringSymbol(<<"a", "b">>)), Lit(Number(1))>>,
     <<Lit(Number(1)), Identifier("x")>>,
     <<Lit(Number(1)), Lit(StringSymbol(<<"a", "b">>)), Identifier("x")>>}

CallNext ==
    \/ \E params \in CallParamLists : EvalFunctionStatement("f", params)
    \/ EvalVariableExpression("x", Lit(List(<<Number(1), Number(2)>>)))
    \/ \E args \in CallArgLists : EvalCallExpression("f", args)
    \/ EndBlock

CallSpec == Init /\ [][CallNext]_vars

\* the parameter names of params
ParamNames(params) == {params[i] : i \in 1..Len(params)}

\* C16: arity check.  A call of a user function with fewer arguments than
\* parameters fails before any argument is evaluated and before any frame
\* is pushed, and leaves the symbol table and the scope stack as they were.
\* With at least as many arguments, parameter i is bound to argument i, and
\* the surplus arguments are evaluated but bound to no name.
ArityCheck ==
    [][\A args \in CallArgLists :
        (/\ last'.name = "f"
         /\ last'.op \in {"call_enter", "CallExpression"}
         /\ get_symbol(symbol_table, "f").ok
         /\ get_symbol(symbol_table, "f").val.t = "Function"
         /\ EvalCallExpression("f", args)) =>
            LET params == get_symbol(symbol_table, "f").val.v
                values == [i \in 1..Len(args) |-> eval_node(symbol_table, args[i])]
                frame == curr(symbol_table'.scope).id
            IN  IF Len(args) < Len(params)
                THEN /\ last'.res = Err("missing function args")
                     /\ symbol_table' = symbol_table
                ELSE IF \E i \in 1..Len(args) : ~values[i].ok
                THEN /\ ~last'.res.ok
                     /\ last'.res.err # "missing function args"
                     /\ symbol_table' = symbol_table
                ELSE /\ last'.op = "call_enter"
                     /\ curr(symbol_table'.scope).kind = "FunctionBlock"
                     /\ frame \notin DOMAIN symbol_table.scoped_table
                     /\ \A i \in 1..Len(params) :
                            get(symbol_table', params[i]) = Some(values[i].val)
                     /\ DOMAIN symbol_table'.scoped_table[frame] \subseteq ParamNames(params)
                     /\ \A n \in Names \ ParamNames(params) :
                            get(symbol_table', n) =
                                IF n \in DOMAIN symbol_table.scoped_table[GLOBAL_SCOPE_ID]
                                THEN Some(symbol_table.scoped_table[GLOBAL_SCOPE_ID][n])
                                ELSE NoneOption]_vars

\* f(x, y) was called with three arguments: x and y are bound to the first
\* two, in a frame that binds nothing else
CalledWithSurplusArgument ==
    /\ last.op = "call_enter"
    /\ Len(calls) = 1
    /\ get(symbol_table, "x") = Some(Number(1))
    /\ get(symbol_table, "y") = Some(StringSymbol(<<"a", "b">>))
    /\ DOMAIN symbol_table.scoped_table[curr(symbol_table.scope).id] = {"y"}

(***************************************************************************)
(* remove and insert at every index from 0 to past the end, on a stored    *)
(* list and a stored string.                                               *)
(***************************************************************************)
Container == "x"
Containers == {List(<<Number(1), Number(2)>>), StringSymbol(<<"a", "b">>)}
MutatorIndexes == 0..(MaxLen + 1)
Inserted == {Number(7), StringSymbol(<<"c">>)}
MutatorArgs(method) ==
    IF method = "remove" THEN {<<Number(i)>> : i \in MutatorIndexes}
    ELSE {<<Number(i), v>> : i \in MutatorIndexes, v \in Inserted}

MutatorNext ==
    \/ \E c \in Containers : EvalVariableExpression(Container, Lit(c))
    \/ \E method \in {"remove", "insert"} :
           \E args \in MutatorArgs(method) : EvalMethodCall(Container, method, args)

MutatorSpec == Init /\ [][MutatorNext]_vars

\* the container bound to Container in the global frame
Stored(st) == st.scoped_table[GLOBAL_SCOPE_ID][Container]

\* element i (from 0) of a list, or character i of a string as a string
ElementAt(c, i) == IF c.t = "String" THEN StringSymbol(<<c.v[i + 1]>>) ELSE c.v[i + 1]

\* the elements v stands for when inserted into c
ElementsOf(c, v) == IF c.t = "String" THEN v.v ELSE <<v>>

\* C17: bounds of container mutators.  On a list or string of length len,
\* remove(i) with i >= len and insert(i, v) with i > len give an error
\* value, without a crash of the host, and leave the receiver as it was;
\* remove(i) with i < len removes element i and returns it; insert(i, v)
\* with i <= len places v at position i and shifts the later elements.
MutatorBounds ==
    [][\A method \in {"remove", "insert"} : \A args \in MutatorArgs(method) :
        (/\ last'.name = Container
         /\ last'.op \in {method, "panic"}
         /\ Container \in DOMAIN symbol_table.scoped_table[GLOBAL_SCOPE_ID]
         /\ method = "insert" => (args[2].t = "String") = (Stored(symbol_table).t = "String")
         /\ EvalMethodCall(Container, method, args)) =>
            LET c == Stored(symbol_table)
                i == args[1].v
            IN  IF method = "remove"
                THEN IF i >= Len(c.v)
                     THEN /\ last'.op # "panic"
                          /\ ~last'.res.ok
                          /\ Stored(symbol_table') = c
                     ELSE /\ last'.res = Ok(ElementAt(c, i))
                          /\ Stored(symbol_table').v = RemoveAt(c.v, i)
                ELSE IF i > Len(c.v)
                     THEN /\ last'.op # "panic"
                          /\ ~last'.res.ok
                          /\ Stored(symbol_table') = c
                     ELSE /\ last'.res.ok
                          /\ Stored(symbol_table').v =
                                 SubSeq(c.v, 1, i) \o ElementsOf(c, args[2])
                                     \o SubSeq(c.v, i + 1, Len(c.v))]_vars

(***************************************************************************)
(* Programs that read process.argv, copy it into a variable, and call      *)
(* methods on it and on the copy.                                          *)
(***************************************************************************)
Process == "process"
Argv == "argv"
ArgvCopy == "x"

\* Object::get: the property, or None when the object has none of that name
Object_get(obj, key) == IF key = Argv THEN obj.v ELSE NoneSymbol

\* visit_member_expression, base an identifier
visit_member_expression(st, name, property) ==
    LET symbol == get_symbol(st, name)
    IN  IF ~symbol.ok THEN symbol
        ELSE IF symbol.val.t = "Object" THEN Ok(Object_get(symbol.val, property))
        ELSE Err("has no property")

\* eval_variable_expression, the right-hand side a member expression
EvalVariableFromMember(name, object, property) ==
    /\ Step
    /\ LET rhs == visit_member_expression(symbol_table, object, property)
       IN  IF ~rhs.ok
           THEN Fail("VariableExpression", name, rhs) /\ UNCHANGED symbol_table
           ELSE /\ symbol_table' = set(symbol_table, name, rhs.val)
                /\ last' = Log("VariableExpression", name, Ok(NoneSymbol))
                /\ UNCHANGED calls

\* visit_member_expression_call, the base a member expression of an
\* identifier: visit_node_mut hands out visit_member_expression_mut's
\* reference to the property stored in the object (Object::get_mut), and
\* Symbol::call acts on it
EvalMemberMethodCall(name, property, method, args) ==
    /\ Step
    /\ LET f == find(symbol_table, name)
           self == symbol_table.scoped_table[f.id][name]
           out == Symbol_call(self.v, method, args)
           log == Log(method, name, out.res)
       IN  IF ~f.found
           THEN Fail(method, name, Err(NotDefined(name))) /\ UNCHANGED symbol_table
           ELSE IF self.t # "Object"
           THEN Fail(method, name, Err("has no property")) /\ UNCHANGED symbol_table
           ELSE IF property # Argv
           THEN /\ last' = Log("panic", name, Err("panic"))
                /\ UNCHANGED <<symbol_table, calls>>
           ELSE /\ Size(out.recv) <= MaxLen
                /\ IF out.panic
                   THEN /\ last' = [log EXCEPT !.op = "panic"]
                        /\ UNCHANGED <<symbol_table, calls>>
                   ELSE /\ symbol_table' =
                               write_back(symbol_table, f.id, name, Object(out.recv))
                        /\ last' = log
                        /\ calls' = IF out.res.ok THEN calls ELSE <<>>

ObjectMethods == Methods \cup {"len"}

ObjectNext ==
    \/ EvalVariableFromMember(ArgvCopy, Process, Argv)
    \/ \E method \in ObjectMethods : \E args \in MethodArgs(method) :
           EvalMemberMethodCall(Process, Argv, method, args)
    \/ \E method \in ObjectMethods : \E args \in MethodArgs(method) :
           EvalMethodCall(ArgvCopy, method, args)

ObjectSpec == Init /\ [][ObjectNext]_vars

\* C19: objects are immutable to programs.  While no statement rebinds the
\* name process, the list process.argv has exactly the elements it was
\* given when the evaluator was constructed (none): no method call written
\* on process.argv changes the stored list.
ArgvKeepsItsElements ==
    visit_member_expression(symbol_table, Process, Argv) = Ok(List(<<>>))

(***************************************************************************)
(* ASTEvaluator::eval on programs of a few top-level statements, some of   *)
(* which fail.                                                             *)
(***************************************************************************)
MaxProgram == 3
Statements ==
    {VariableExpression(Identifier("x"), Lit(Number(1))),
     VariableExpression(Identifier("x"),
                        BinaryExpression(Identifier("x"), "Plus", Lit(Number(1)))),
     Identifier("x"),
     UnaryExpression(Lit(StringSymbol(<<"a">>))),
     Identifier("y"),
     BinaryExpression(Lit(Number(1)), "Plus", Lit(StringSymbol(<<"a">>)))}
Programs == SeqsUpTo(Statements, MaxProgram)

\* the evaluator before eval, and its result before any statement
NewEvaluator == SymbolTable_from(get_global_vars(<<>>))
NoLines == [st |-> NewEvaluator, ok |-> TRUE, results |-> <<>>, err |-> "",
            visited |-> <<>>, finite |-> TRUE]

ProgramInit ==
    /\ symbol_table = NewEvaluator
    /\ calls = <<>>
    /\ steps = 0
    /\ lexer = Lexer_new(<<>>)
    /\ \E program \in Programs : last = Log("new", program, NoResults)

EvalProgram ==
    LET Returned_(r) ==
            /\ symbol_table' = r.st
            /\ last' = Log("eval", last.name,
                           [ok |-> r.ok, results |-> r.results, err |-> r.err,
                            visited |-> r.visited])
            /\ UNCHANGED <<calls, steps, lexer>>
    IN  /\ last.op = "new"
        /\ Returned_(ASTEvaluator_eval(symbol_table, last.name, NoLines))

ProgramNext == EvalProgram

ProgramSpec == ProgramInit /\ [][ProgramNext]_vars

RECURSIVE StatementAlone(_, _)
\* statement i of the program evaluated by itself, in the table the
\* statements before it left
StatementAlone(program, i) ==
    ASTEvaluator_eval_node(IF i = 1 THEN NewEvaluator ELSE StatementAlone(program, i - 1).st,
                           program[i], <<>>)

\* the first statement that fails, or one past the last statement
FirstFailure(program) ==
    IF \E k \in 1..Len(program) : ~StatementAlone(program, k).ok
    THEN CHOOSE k \in 1..Len(program) :
            /\ ~StatementAlone(program, k).ok
            /\ \A j \in 1..(k - 1) : StatementAlone(program, j).ok
    ELSE Len(program) + 1

\* C21: eval of a program whose n statements all succeed returns n entries,
\* entry i the optional value of statement i, the statements evaluated in
\* source order (no entry for an empty program); when statement k fails,
\* eval returns its error, evaluates no statement after k, and the effects
\* of statements 1..k-1 on the symbol table remain.
EvalInSourceOrder ==
    last.op = "eval" =>
        LET program == last.name
            n == Len(program)
            k == FirstFailure(program)
        IN  IF k > n
            THEN /\ last.res.ok
                 /\ Len(last.res.results) = n
                 /\ \A i \in 1..n :
                        /\ last.res.results[i].some = StatementAlone(program, i).some
                        /\ last.res.results[i].some =>
                               last.res.results[i].val = StatementAlone(program, i).val
                 /\ Len(last.res.visited) = n
                 /\ symbol_table = IF n = 0 THEN NewEvaluator
                                   ELSE StatementAlone(program, n).st
            ELSE /\ ~last.res.ok
                 /\ last.res.err = StatementAlone(program, k).err
                 /\ Len(last.res.visited) = k
                 /\ symbol_table = IF k = 1 THEN NewEvaluator
                                   ELSE StatementAlone(program, k - 1).st

\* `x = 1`, then the undefined y, then `x = x + 1`: eval failed at the
\* second statement and x is 1
FailedAtSecondStatement ==
    /\ last.op = "eval"
    /\ Len(last.name) = 3
    /\ last.name[2] = Identifier("y")
    /\ last.name[3].e = "VariableExpression"
    /\ ~last.res.ok
    /\ Len(last.res.visited) = 2
    /\ get(symbol_table, "x") = Some(Number(1))

\* C22: scope balance across errors.  Between top-level statements (no
\* block, loop body or function body is being evaluated) the scope stack
\* consists of the root Global frame only, also after a statement that
\* failed inside an if block, a loop body or a function body.
ScopeBalancedBetweenStatements ==
    calls = <<>> => symbol_table.scope = ScopeStack_new

\* C23: parameters are local to the call.  When a function is called, each
\* parameter is bound in the call's own FunctionBlock frame, and the Global
\* frame keeps every binding it had before the call, also for a global
\* variable that has the name of a parameter.
ParametersLocalToCall ==
    [][last'.op = "call_enter" =>
        LET frame == curr(symbol_table'.scope).id
            params == get_symbol(symbol_table, last'.name).val.v
        IN  /\ \A i \in 1..Len(params) :
                    params[i] \in DOMAIN symbol_table'.scoped_table[frame]
            /\ symbol_table'.scoped_table[GLOBAL_SCOPE_ID]
                    = symbol_table.scoped_table[GLOBAL_SCOPE_ID]]_vars

\* the names the step that pushed the frame `last` reports may bind in it:
\* the parameters of the called function, or the loop variable
BoundAtEntry(st, entered) ==
    CASE entered.op = "call_enter" -> ParamNames(get_symbol(st, entered.name).val.v)
      [] entered.op = "for_enter" -> {entered.name}
      [] OTHER -> {}

\* C24: storage matches live frames.  In every reachable state the keys of
\* scoped_table are 0 and the ids of the live non-global frames of all outer
\* elements, and no two live non-global frames share an id; a frame that is
\* pushed gets a map of its own that holds no binding but those its own
\* statement makes (no binding of an earlier, popped frame shows through).
StorageMatchesLiveFrames ==
    /\ [](/\ DOMAIN symbol_table.scoped_table
                = {GLOBAL_SCOPE_ID} \cup {LiveFrames[k].id : k \in 1..Len(LiveFrames)}
          /\ \A j, k \in 1..Len(LiveFrames) :
                LiveFrames[j].id = LiveFrames[k].id => j = k)
    /\ [][symbol_table'.scope.counter > symbol_table.scope.counter =>
            LET id == symbol_table.scope.counter
            IN  /\ id \notin DOMAIN symbol_table.scoped_table
                /\ curr(symbol_table'.scope).id = id
                /\ DOMAIN symbol_table'.scoped_table[id]
                        \subseteq BoundAtEntry(symbol_table, last')]_vars

\* a function is called inside a block: two outer elements, each with a live
\* non-global frame
FramesInTwoOuterElements ==
    /\ Len(symbol_table.scope.scope) = 2
    /\ Len(LiveFrames) = 2
    /\ last.op = "call_enter"
    /\ steps = MaxSteps

(***************************************************************************)
(* For statements over ranges at the width of i32.  Range::next adds the   *)
(* increment to the ticker with `+=` on i32: when the sum leaves i32 the   *)
(* addition panics in a build with overflow checks (the dev profile) and   *)
(* wraps modulo 2^32 in a build without them (the release profile).  The   *)
(* body of the loop is empty.                                              *)
(***************************************************************************)
I32Max == 2147483647
I32Min == -I32Max - 1

\* the distance of a range's start from its end
MaxSpan == 2

\* a + b leaves i32
overflows(a, b) == (b > 0 /\ a > I32Max - b) \/ (b < 0 /\ a < I32Min - b)

\* i32::wrapping_add: a + b modulo 2^32, computed within i32
wrapping_add(a, b) ==
    IF b > 0 /\ a > I32Max - b THEN (a - I32Max - 1) + (b - I32Max - 1)
    ELSE IF b < 0 /\ a < I32Min - b THEN (a + I32Max + 1) + (b + I32Max + 1)
    ELSE a + b

\* Range::next on i32: the range after the call, the Option it returns, and
\* whether `self.ticker += self.increment` panicked
Range_next_i32(r, overflow_checks) ==
    IF \/ r.v.increment > 0 /\ r.v.ticker >= r.v.end
       \/ r.v.increment < 0 /\ r.v.ticker <= r.v.end
    THEN [range |-> r, next |-> NoneOption, panic |-> FALSE]
    ELSE IF overflow_checks /\ overflows(r.v.ticker, r.v.increment)
    THEN [range |-> r, next |-> NoneOption, panic |-> TRUE]
    ELSE [range |-> [r EXCEPT !.v.ticker = wrapping_add(@, r.v.increment)],
          next |-> Some(Number(r.v.ticker)), panic |-> FALSE]

\* the ends, the starts (at most MaxSpan from the end) and the increments of
\* the loops: one step up and down, and steps of 2^29, 2^30 and -2^31
TickerEnds == {I32Min, I32Min + 1, 0, I32Max - 1, I32Max}
TickerStarts(end) ==
    {IF end <= I32Max - d THEN end + d ELSE end : d \in 0..MaxSpan}
        \cup {IF end >= I32Min + d THEN end - d ELSE end : d \in 0..MaxSpan}
TickerIncrements == {1, -1, 536870912, -536870912, 1073741824, -1073741824, I32Min}

\* eval_for_statement has evaluated the range and pushed the ForBlock frame
TickerInit ==
    /\ symbol_table = SymbolTable_push_scope(SymbolTable_from(get_global_vars(<<>>)),
                                             "ForBlock")
    /\ calls = <<>>
    /\ \E end \in TickerEnds, increment \in TickerIncrements, overflow_checks \in BOOLEAN :
        \E start \in TickerStarts(end) :
            last = Log("visit_iterable", LoopVariable,
                       [range |-> Range_new(start, end, <<increment>>),
                        overflow_checks |-> overflow_checks])
    /\ steps = 0
    /\ lexer = Lexer_new(<<>>)

\* eval_for_statement: one turn of `for symbol in iterable`, with the body
ForIteration ==
    /\ last.op \in {"visit_iterable", "for_next"}
    /\ LET Turn(n) ==
               IF n.panic
               THEN /\ last' = [last EXCEPT !.op = "panic"]
                    /\ UNCHANGED symbol_table
               ELSE IF ~n.next.some
               THEN /\ symbol_table' = SymbolTable_pop_scope(symbol_table)
                    /\ last' = [last EXCEPT !.op = "for_exit"]
               ELSE /\ symbol_table' = set(symbol_table, last.name, n.next.val)
                    /\ last' = [last EXCEPT !.op = "for_next", !.res.range = n.range]
       IN  Turn(Range_next_i32(last.res.range, last.res.overflow_checks))
    /\ UNCHANGED <<calls, steps, lexer>>

TickerNext == ForIteration

\* the loop runs on: a turn that can be taken is taken
TickerSpec == TickerInit /\ [][TickerNext]_vars /\ WF_vars(TickerNext)

\* C25: a for loop over a Range whose increment is not zero comes to an end
\* (its body ends without an error), for every start, end and increment of
\* i32, also when the end is close to the largest or the smallest i32.
RangeLoopTerminates ==
    <>(last.op \in {"for_exit", "panic"})

(***************************************************************************)
(* Numbers and dots: the lexer on sources of digits, dots and blanks.      *)
(***************************************************************************)
DigitBytes == {"1", "2", ".", " "}
DigitSources == SeqsUpTo(DigitBytes, MaxSource)

DigitInit ==
    /\ symbol_table = SymbolTable_from(get_global_vars(<<>>))
    /\ calls = <<>>
    /\ last = Log("new", 0, EOF)
    /\ steps = 0
    /\ lexer \in {Lexer_new(src) : src \in DigitSources}

DigitNext ==
    \/ AdvanceToken
    \/ Lookahead(1)

DigitSpec == DigitInit /\ [][DigitNext]_vars

\* C26: a run of digits followed by a dot that no digit follows (`12.`, the
\* `1.` of `1..3`) is lexed as an Integer token that consumes the digits
\* only, the dot being the next token; a number token is a Decimal exactly
\* when its text has the dot with at least one digit after it.
DecimalNeedsFraction ==
    [][(last'.op = "next_token" /\ last'.res.type \in {"Integer", "Decimal"}) =>
        LET text == SubSeq(lexer.src, lexer.cursor + 1, lexer'.cursor)
        IN  last'.res.type = "Decimal" <=>
                \E i \in 1..(Len(text) - 1) :
                    text[i] = "." /\ text[i + 1] \in AsciiDigit]_vars

\* C27: calling a name that is bound to a value that is no Function (`x = 1`,
\* then `x()`) fails with an error and pushes no frame; the call yields no
\* value.
CallOfNonFunctionFails ==
    [][\A name \in Callees, args \in ArgLists :
        (/\ get_symbol(symbol_table, name).ok
         /\ get_symbol(symbol_table, name).val.t # "Function"
         /\ EvalCallExpression(name, args)) =>
            /\ ~last'.res.ok
            /\ symbol_table' = symbol_table]_vars

(***************************************************************************)
(* Lines that begin with `return`, with a function name or with a          *)
(* variable, followed by an expression that may begin with `(` or `[`.     *)
(***************************************************************************)
ReturnWord == <<"r", "e", "t", "u", "r", "n">>
\* expressions that begin with a bracket, and expressions that do not
BracketOperands ==
    {<<"(", "x", "+", "1", ")">>, <<"(", "x", ")">>, <<"[", "1", ",", "2", "]">>,
     <<"[", "x", "]">>, <<"[", "]">>}
PlainOperands ==
    {<<"x">>, <<"1">>, <<"-", "1">>, <<"x", "+", "1">>, <<"x", ".", "y">>,
     <<"f", "(", "1", ")">>, <<"x", "[", "0", "]">>, <<"n", "o", "n", "e">>,
     <<"t", "r", "u", "e">>}
ReturnOperands == BracketOperands \cup PlainOperands
Heads == {ReturnWord, <<"f">>, <<"x">>}
Blanks == {<<>>, <<" ">>}
\* `return e`, `return(e)`, `f (e)`, `x[e]`, ... and the expressions alone
ReturnLines ==
    {head \o blank \o operand : head \in Heads, blank \in Blanks, operand \in BracketOperands}
        \cup {ReturnWord \o <<" ">> \o operand : operand \in PlainOperands}
        \cup ReturnOperands
\* the lines, alone and with a second line after them
ReturnSources == ReturnLines \cup {line \o <<"\n", "x">> : line \in ReturnLines}

NoProgram == [ok |-> TRUE, program |-> <<>>, err |-> ""]

ReturnInit ==
    /\ symbol_table = SymbolTable_from(get_global_vars(<<>>))
    /\ calls = <<>>
    /\ steps = 0
    /\ \E src \in ReturnSources :
        /\ lexer = Lexer_new(src)
        /\ last = Log("new", src, NoProgram)

\* Parser::new(src).parse()
Parse ==
    LET Program(parsed) ==
            /\ lexer' = parsed.lexer
            /\ last' = Log(IF parsed.panic THEN "panic" ELSE "parse", last.name,
                           [ok |-> parsed.ok, program |-> parsed.program, err |-> parsed.err])
            /\ UNCHANGED <<symbol_table, calls, steps>>
    IN  /\ last.op = "new"
        /\ Program(Parser_parse(lexer.src))

ReturnNext == Parse

ReturnSpec == ReturnInit /\ [][ReturnNext]_vars

\* C28: the reserved word `return` is parsed as a ReturnStatement whatever
\* expression follows it, also one that begins with `(` or `[`: the line
\* `return e` parses to the ReturnStatement of the node that e alone parses
\* to, never to a call, index or member expression on an identifier named
\* return.
ReturnIsReserved ==
    \A blank \in Blanks, operand \in ReturnOperands :
        (/\ last.op # "new"
         /\ last.name = ReturnWord \o blank \o operand
         /\ blank = <<>> => operand \in BracketOperands) =>
            /\ last.op = "parse"
            /\ last.res.ok
            /\ last.res.program = <<ReturnStatement(Parser_parse(operand).program[1])>>

(***************************************************************************)
(* Command lines: `ls` followed by blanks, `=`, `!`, digits and letters,   *)
(* to the end of the input or of the line.  The text of a command is a     *)
(* string; the sources hold no `$`, no quote, no `#` and no backslash.     *)
(***************************************************************************)
CommandName == <<"l", "s">>
CommandBytes == {" ", "=", "!", "0", "a"}
\* what follows the command name does not go on with the name
CommandSources ==
    {CommandName \o rest \o end :
        rest \in {r \in SeqsUpTo(CommandBytes, MaxSource) :
                    r = <<>> \/ r[1] \notin AsciiAlphanumeric},
        end \in {<<>>, <<"\n">>}}

\* usize::to_string
RECURSIVE usize_to_string(_)
usize_to_string(n) ==
    LET digit(d) == CHOOSE b \in AsciiDigit : DigitValue(b) = d
    IN  IF n < 10 THEN digit(n) ELSE usize_to_string(n \div 10) \o digit(n % 10)

\* impl Display for TokenType, on the tokens of the command sources
TokenType_fmt(token) ==
    CASE token.type = "DoubleEquals" -> "=="
      [] token.type = "EOF" -> "EOF"
      [] token.type = "Equals" -> "."
      [] token.type = "Newline" -> "\n"
      [] token.type = "Not" -> "!"
      [] token.type = "NotEquals" -> "!="
      [] token.type = "Whitespace" -> " "
      [] token.type = "LineComment" -> ""
      [] token.type = "EscapedIdentifier" -> token.ident
      [] token.type = "Integer" -> usize_to_string(token.int)
      [] token.type = "Identifier" -> token.ident

\* ASTNode::String, its text a string
StringNode(value) == [e |-> "String", value |-> value]
Command(tokens) == [e |-> "Command", tokens |-> tokens]

advance_cmd_token(p) ==
    LET Of(n) == Parser(n.lexer, n.token, n.panic)
    IN  IF p.panic THEN p ELSE Of(next_cmd_token(p.lexer))

RECURSIVE command_loop(_, _, _)
\* the loop of command: prev is the token before the current one
command_loop(p, prev, tokens) ==
    IF p.panic \/ (is_end_line(p.curr_token) /\ prev # Simple("BackSlash"))
    THEN Parsed(p, Command(tokens))
    ELSE command_loop(advance_cmd_token(p), p.curr_token,
                      Append(tokens,
                             IF p.curr_token.type = "EscapedIdentifier"
                             THEN Identifier(p.curr_token.ident)
                             ELSE StringNode(TokenType_fmt(p.curr_token))))

\* command = command (node)*
command(p, cmd) == command_loop(advance_cmd_token(p), p.curr_token, <<StringNode(cmd)>>)

\* impl Display for Symbol, on strings, booleans and none
Symbol_fmt(symbol) ==
    CASE symbol.t = "String" -> bytes_to_string(symbol.v)
      [] symbol.t = "Boolean" -> IF symbol.v THEN "true" ELSE "false"
      [] symbol.t = "None" -> "none"

RECURSIVE eval_command(_, _, _)
\* eval_command up to run_cmd: the command string, or the first error
eval_command(st, tokens, cmd_string) ==
    LET Pushed(sym) ==
            IF ~sym.ok THEN sym
            ELSE eval_command(st, Tail(tokens), cmd_string \o Symbol_fmt(sym.val))
    IN  IF tokens = <<>> THEN [ok |-> TRUE, val |-> cmd_string, err |-> ""]
        ELSE IF tokens[1].e = "String"
        THEN eval_command(st, Tail(tokens), cmd_string \o tokens[1].value)
        ELSE Pushed(get_symbol(st, tokens[1].name))

CommandInit ==
    /\ symbol_table = SymbolTable_from(get_global_vars(<<>>))
    /\ calls = <<>>
    /\ steps = 0
    /\ \E src \in CommandSources :
        /\ lexer = Lexer_new(src)
        /\ last = Log("new", src, Ok(""))

\* parse_identifier, arm of the commands, and eval_command: the line is
\* parsed to a Command, whose string is handed to run_cmd
EvalCommand ==
    LET Run(parsed, cmd) ==
            /\ lexer' = parsed.p.lexer
            /\ last' = Log("run_cmd", last.name, cmd)
            /\ UNCHANGED <<symbol_table, calls, steps>>
        Parsed_(parsed) == Run(parsed, eval_command(symbol_table, parsed.node.tokens, ""))
    IN  /\ last.op = "new"
        /\ Parsed_(command(Parser_new(lexer.src), bytes_to_string(CommandName)))

CommandNext == EvalCommand

CommandSpec == CommandInit /\ [][CommandNext]_vars

\* the bytes of src before its first newline
FirstLine(src) ==
    IF \E i \in 1..Len(src) : src[i] = "\n"
    THEN SubSeq(src, 1, (CHOOSE i \in 1..Len(src) :
                            src[i] = "\n" /\ \A j \in 1..(i - 1) : src[j] # "\n") - 1)
    ELSE src

\* C29: command text round trip.  The string handed to the shell is the
\* source text from the command name up to the first end of line: a token
\* that is no `$name`, no template string and no comment (`=`, `!`, a run of
\* blanks, a number) contributes its source characters and nothing else.
CommandTextRoundTrip ==
    last.op = "run_cmd" =>
        /\ last.res.ok
        /\ last.res.val = bytes_to_string(FirstLine(last.name))

====
